---- MODULE Spec2Model ----
(***************************************************************************)
(* A model of the basketball-hoops scraper: the retrying fetcher           *)
(* (BasketballReferenceScraper.fetch_data), the boxscore harvest loop      *)
(* (scrape_boxscore_tables), the identifier generators of configs/schema   *)
(* and the chunked writer of DatabaseStore.                                *)
(*                                                                         *)
(* The module holds several specifications over one set of variables; each *)
(* specification moves only its own group of variables and leaves the      *)
(* other groups at their initial (parked) value.                           *)
(***************************************************************************)
EXTENDS Integers, Sequences, FiniteSets, TLC

VARIABLES
    \* ---- fetch_data (one call) ----
    max_retries,    \* self.max_retries
    attempt,        \* loop variable of `for attempt in range(1, max_retries + 1)` (0 before the loop)
    last_exc,       \* local last_exc: None or the transport error caught last
    responses,      \* what session.get answered so far, one entry per call
    timeline,       \* the time.sleep and session.get calls of this fetch_data call, in order
    fetch_state,    \* "parked" | "running" | "returned" | "raised"
    fetch_result,   \* the returned text, or the FetchError raised
    \* ---- scrape_boxscore_tables (one run) ----
    schedule_df,    \* the schedule rows passed in
    store_given,    \* whether a store was passed (store is not None)
    row_idx,        \* how many rows `for _, row in schedule_df.iterrows()` has gone through
    html_cache,     \* html_cache: DateURL -> table_map of the parsed page
    first_chunk,    \* first_chunk
    results,        \* results: one entry per row that yielded detail rows (with the row's position)
    skipped_dates,  \* skipped_dates
    calls,          \* the fetch_data and store.save_boxscores calls of the run, in order
    box_state,      \* "parked" | "running" | "returned"
    box_return,     \* the dataset returned
    \* ---- clean_for_id / SeasonColumns.generate_id (calls of the pure functions) ----
    id_text,        \* clean_for_id's argument text
    id_max_length,  \* clean_for_id's argument max_length
    id_called,      \* whether the call has been made
    id_out,         \* what clean_for_id returned
    id_calls,       \* the SeasonColumns.generate_id calls made: (season, league, SeasonID)
    \* ---- DatabaseStore ----
    chunk_size,     \* self.chunk_size
    season_table,   \* the rows of the seasons table
    schedule_table, \* the rows of the schedule_games table
    boxscore_table, \* the rows of the boxscores table
    db_saves,       \* how many save_* calls were made
    db_last,        \* the last save_* call: what it passed to _write_dataframe and what came of it
    \* ---- scrape_league_schedules (one run) ----
    base_df,        \* the unit rows passed in
    sched_idx,      \* how many rows `for _, row in base_df.iterrows()` has gone through
    schedules,      \* schedules: one dataset per unit scraped
    sched_log,      \* per unit gone through: the page its listing URL answered with and what came of it
    sched_state,    \* "parked" | "running" | "returned" | "raised"
    sched_return,   \* the rows returned, or the exception that left the call
    \* ---- scrape_league_schedule (one call) ----
    list_page,      \* the page fetch_data answers with
    list_called,    \* whether the call has been made
    list_out,       \* its outcome: the rows returned or the exception raised
    \* ---- main (one run) and the DatabaseStore constructor it calls ----
    main_mode,      \* main's argument mode: "full" | "daily"
    main_target_date, \* main's argument target_date (None or a day)
    primary_url,    \* DatabaseConfig.URL
    config_schema,  \* DatabaseConfig.SCHEMA
    attempts,       \* _initialize_engine_with_fallback: the candidates tried, with what came of each
    init_state,     \* the constructor: "parked" | "running" | "returned" | "raised"
    store,          \* main's store: None, or the store with its url and schema
    main_pc,        \* the statement main is at
    main_exc,       \* the exception that left main
    seasons_df,     \* seasons_df
    schedules_df,   \* schedules_df
    boxscores_df,   \* boxscores_df
    main_calls,     \* the page fetches and store saves of the run, in order
    \* ---- parse_data (one call) ----
    top_table,      \* the body rows of the first table of the units page
    top_links,      \* whether the table could be read with its links (link_table_df is not None)
    units_called,   \* whether the call has been made
    units_out,      \* the rows parse_data returned
    \* ---- _build_schedule_url (one call) ----
    url_season,     \* argument season_url
    url_league,     \* argument league_url
    url_called,     \* whether the call has been made
    url_out,        \* what it returned
    \* ---- LocalStore / CloudStore _save ----
    files,          \* the stored file (or blob) of each entity kind
    file_saves,     \* how many _save calls were made
    file_last,       \* the last _save call and what it returned
    \* ---- _parse_boxscore_tables (one call) ----
    page_tables,    \* the table elements of the page in page order, each with the containers it lies in
    tables_called,  \* whether the call has been made
    table_elements,  \* the table element found for each role (0: none)
    \* ---- the column order a save operation writes (one call) ----
    order_kind,     \* the entity kind saved
    order_df,       \* the dataset passed in
    order_called,   \* whether the call has been made
    order_out,       \* the columns of the dataset handed to _write_dataframe, in order
    \* ---- _write_dataframe with a failing chunk write (one call) ----
    ch_table,       \* the target table
    ch_call,        \* the call: dataset, if_exists, chunk size, and which chunk write fails (0: none)
    ch_called,      \* whether the call has been made
    ch_before,      \* the table as it was before the call
    ch_out          \* how the call ended: the exception or None, the to_sql calls made, the rows written

fetchVars == <<max_retries, attempt, last_exc, responses, timeline, fetch_state, fetch_result>>

boxVars == <<schedule_df, store_given, row_idx, html_cache, first_chunk, results,
             skipped_dates, calls, box_state, box_return>>

idVars == <<id_text, id_max_length, id_called, id_out, id_calls>>

dbVars == <<chunk_size, season_table, schedule_table, boxscore_table, db_saves, db_last>>

schedVars == <<base_df, sched_idx, schedules, sched_log, sched_state, sched_return>>

listVars == <<list_page, list_called, list_out>>

initVars == <<primary_url, config_schema, attempts, init_state, store>>

mainVars == <<main_mode, main_target_date, main_pc, main_exc, seasons_df, schedules_df, boxscores_df, main_calls>>

unitsVars == <<top_table, top_links, units_called, units_out>>

urlVars == <<url_season, url_league, url_called, url_out>>

filesVars == <<files, file_saves, file_last>>

tablesVars == <<page_tables, tables_called, table_elements>>

orderVars == <<order_kind, order_df, order_called, order_out>>

chunksVars == <<ch_table, ch_call, ch_called, ch_before, ch_out>>

vars == <<fetchVars, boxVars, idVars, dbVars, schedVars, listVars, initVars, mainVars,
          unitsVars, urlVars, filesVars, tablesVars, orderVars, chunksVars>>

nonFetchVars == <<boxVars, idVars, dbVars, schedVars, listVars, initVars, mainVars,
    unitsVars, urlVars, filesVars, tablesVars, orderVars, chunksVars>>
nonBoxVars == <<fetchVars, idVars, dbVars, schedVars, listVars, initVars, mainVars,
    unitsVars, urlVars, filesVars, tablesVars, orderVars, chunksVars>>
nonIdVars == <<fetchVars, boxVars, dbVars, schedVars, listVars, initVars, mainVars,
    unitsVars, urlVars, filesVars, tablesVars, orderVars, chunksVars>>
nonDbVars == <<fetchVars, boxVars, idVars, schedVars, listVars, initVars, mainVars,
    unitsVars, urlVars, filesVars, tablesVars, orderVars, chunksVars>>
nonSchedVars == <<fetchVars, boxVars, idVars, dbVars, listVars, initVars, mainVars,
    unitsVars, urlVars, filesVars, tablesVars, orderVars, chunksVars>>
nonListVars == <<fetchVars, boxVars, idVars, dbVars, schedVars, initVars, mainVars,
    unitsVars, urlVars, filesVars, tablesVars, orderVars, chunksVars>>
nonMainVars == <<fetchVars, boxVars, idVars, schedVars, listVars,
    unitsVars, urlVars, filesVars, tablesVars, orderVars, chunksVars>>
nonUnitsVars == <<fetchVars, boxVars, idVars, dbVars, schedVars, listVars, initVars, mainVars, urlVars, filesVars, tablesVars, orderVars, chunksVars>>
nonUrlVars == <<fetchVars, boxVars, idVars, dbVars, schedVars, listVars, initVars, mainVars, unitsVars, filesVars, tablesVars, orderVars, chunksVars>>
nonFilesVars == <<fetchVars, boxVars, idVars, dbVars, schedVars, listVars, initVars, mainVars, unitsVars, urlVars, tablesVars, orderVars, chunksVars>>
nonTablesVars == <<fetchVars, boxVars, idVars, dbVars, schedVars, listVars, initVars, mainVars, unitsVars, urlVars, filesVars, orderVars, chunksVars>>
nonOrderVars == <<fetchVars, boxVars, idVars, dbVars, schedVars, listVars, initVars, mainVars, unitsVars, urlVars, filesVars, tablesVars, chunksVars>>
nonChunksVars == <<fetchVars, boxVars, idVars, dbVars, schedVars, listVars, initVars, mainVars, unitsVars, urlVars, filesVars, tablesVars, orderVars>>

None == "None"

(***************************************************************************)
(* Bounds                                                                  *)
(***************************************************************************)
MaxRetriesBound == 3
MaxRows == 3
MaxTextLen == 3
MaxLengthArg == 2
MaxLabelLen == 2
MaxIdCalls == 2
MaxChunk == 2
MaxSaves == 2
MaxUnits == 2
MaxTableRows == 3
MaxTopRows == 2
MaxFileSaves == 2
MaxPageTables == 3
MaxFailAt == 3

(***************************************************************************)
(* fetch_data                                                              *)
(***************************************************************************)
REQUEST_DELAY_SECONDS == 2
RETRY_BACKOFF_FACTOR == 2
RETRY_STATUS_CODES == {429, 500, 502, 503, 504}

\* The statuses session.get is made to answer with: success, another 2xx,
\* client errors and every retryable status.
StatusCodes == {200, 204, 404, 403} \cup RETRY_STATUS_CODES
Texts == {"html_a", "html_b"}

\* A response object (status_code, text), or a requests.RequestException raised by session.get.
HttpResponses == [kind : {"http"}, status_code : StatusCodes, text : Texts]
TransportErrors == {[kind |-> "exc", status_code |-> 0, text |-> "RequestException"]}
Responses == HttpResponses \cup TransportErrors

\* The classification of one response: lines 106-124 in their order.
ClassifyRetry404(status_code) ==
    IF status_code = 200 THEN "success"
    ELSE IF status_code \in RETRY_STATUS_CODES \cup {404} THEN "retry"
    ELSE "fatal"

ClassifyNo429(status_code) ==
    IF status_code = 200 THEN "success"
    ELSE IF status_code \in RETRY_STATUS_CODES \ {429} THEN "retry"
    ELSE "fatal"

Classify(status_code) ==
    IF status_code = 200 THEN "success"
    ELSE IF status_code \in RETRY_STATUS_CODES THEN "retry"
    ELSE "fatal"

\* range(1, max_retries + 1) has a next element after `done` iterations.
HasNextAttemptOneMore(done, limit) == done < limit + 1

HasNextAttemptAtLeastOnce(done, limit) == done < limit \/ done = 0

HasNextAttempt(done, limit) == done < limit

\* wait = request_delay * (RETRY_BACKOFF_FACTOR ** (attempt - 1))
BackoffWait(n) == REQUEST_DELAY_SECONDS * (RETRY_BACKOFF_FACTOR ^ (n - 1))

Sleep(secs, why) == [ev |-> "sleep", secs |-> secs, why |-> why]
Get(n) == [ev |-> "get", secs |-> 0, why |-> "attempt"]

\* time.sleep(self.request_delay) and session.get of attempt n (lines 103-105)
PacedGetFirstOnly(n) ==
    IF n = 1 THEN <<Sleep(REQUEST_DELAY_SECONDS, "pacing"), Get(n)>> ELSE <<Get(n)>>

PacedGet(n) == <<Sleep(REQUEST_DELAY_SECONDS, "pacing"), Get(n)>>

\* last_exc = None, and the exception caught at an attempt.
NoException == [exc |-> "None", attempt |-> 0]
RequestException(n) == [exc |-> "RequestException", attempt |-> n]

\* How the call ended: nothing yet, `return response.text`, or `raise FetchError(msg) from cause`.
NoResult == [kind |-> "none", text |-> "", cause |-> NoException]
Returned(text) == [kind |-> "text", text |-> text, cause |-> NoException]
FetchError(msg, cause) == [kind |-> "FetchError", text |-> msg, cause |-> cause]

InitFetch ==
    /\ max_retries \in -1..MaxRetriesBound
    /\ attempt = 0
    /\ last_exc = NoException
    /\ responses = <<>>
    /\ timeline = <<>>
    /\ fetch_state = "running"
    /\ fetch_result = NoResult

ParkedFetch ==
    /\ max_retries = 0
    /\ attempt = 0
    /\ last_exc = NoException
    /\ responses = <<>>
    /\ timeline = <<>>
    /\ fetch_state = "parked"
    /\ fetch_result = NoResult

\* One iteration of the retry loop: the pacing sleep, session.get, and the
\* branch taken on its answer.
FetchAttempt(resp) ==
    /\ fetch_state = "running"
    /\ HasNextAttempt(attempt, max_retries)
    /\ attempt' = attempt + 1
    /\ responses' = Append(responses, resp)
    /\ UNCHANGED <<max_retries, nonFetchVars>>
    /\ LET paced == timeline \o PacedGet(attempt + 1)
           backed == Append(paced, Sleep(BackoffWait(attempt + 1), "backoff"))
       IN  \/ /\ resp.kind = "exc"
              /\ last_exc' = RequestException(attempt + 1)
              /\ timeline' = backed
              /\ UNCHANGED <<fetch_state, fetch_result>>
           \/ /\ resp.kind = "http"
              /\ Classify(resp.status_code) = "success"
              /\ timeline' = paced
              /\ fetch_state' = "returned"
              /\ fetch_result' = Returned(resp.text)
              /\ UNCHANGED last_exc
           \/ /\ resp.kind = "http"
              /\ Classify(resp.status_code) = "retry"
              /\ timeline' = backed
              /\ UNCHANGED <<fetch_state, fetch_result, last_exc>>
           \/ /\ resp.kind = "http"
              /\ Classify(resp.status_code) = "fatal"
              /\ timeline' = paced
              /\ fetch_state' = "raised"
              /\ fetch_result' = FetchError("HTTP", NoException)
              /\ UNCHANGED last_exc

\* The loop is exhausted: raise FetchError(...) from last_exc.
FetchExhausted ==
    /\ fetch_state = "running"
    /\ ~HasNextAttempt(attempt, max_retries)
    /\ fetch_state' = "raised"
    /\ fetch_result' = FetchError("after max_retries attempts", last_exc)
    /\ UNCHANGED <<max_retries, attempt, last_exc, responses, timeline, nonFetchVars>>

NextFetch ==
    \/ \E resp \in Responses : FetchAttempt(resp)
    \/ FetchExhausted


(***************************************************************************)
(* scrape_boxscore_tables                                                  *)
(***************************************************************************)
Roles == <<"Visitors", "Home">>
URLs == {"boxscores/g1.html", "boxscores/g2.html"}

\* Schedule rows as scrape_league_schedule leaves them: a detail-page URL or
\* None, two participant names (the visitors' one may be missing), and the
\* labels of the owning season.
ScheduleRows ==
    [DateURL : URLs \cup {None},
     TeamNameVisitors : {"Team B", None},
     TeamNameHome : {"Team A"},
     GameDate : {"2025-10-03"},
     Season : {"2024-25"},
     LeagueName : {"EuroLeague"},
     ScheduleURL : {"league-a/2024-schedule.html"}]

SeqsUpTo(S, n) == UNION {[1..k -> S] : k \in 0..n}

\* What _parse_boxscore_tables can hand back for a fetched page: a table (its
\* raw rows) or nothing for each role.
\* A role's entry of the table_map dict is <<>> when the key is absent and
\* <<table>> when it is present, table being the parsed rows (possibly none).
VisitorsTable == <<[Player |-> "Player V"]>>
HomeTable == <<[Player |-> "Player H"]>>
EmptyTable == <<>>
NoTables == [Visitors |-> <<>>, Home |-> <<>>]
TableMaps ==
    { NoTables,
      [Visitors |-> <<>>, Home |-> <<HomeTable>>],
      [Visitors |-> <<VisitorsTable>>, Home |-> <<HomeTable>>],
      [Visitors |-> <<>>, Home |-> <<EmptyTable>>] }

\* The outcome of self.fetch_data(date_url) followed by _parse_boxscore_tables:
\* a ScraperError, or the page's table_map; NoFetch when no fetch is made.
FetchFailed == [kind |-> "ScraperError", table_map |-> NoTables]
Parsed(table_map) == [kind |-> "parsed", table_map |-> table_map]
NoFetch == [kind |-> "nofetch", table_map |-> NoTables]
Outcomes == {FetchFailed} \cup {Parsed(tm) : tm \in TableMaps}

\* `except ScraperError` (line 430): the outcomes of the fetch that the handler catches
CatchesNothing(outcome) == FALSE

Catches(outcome) == outcome.kind = "ScraperError"

\* An html_cache slot: the key is absent, or it maps to a table_map.
NotCached == [cached |-> FALSE, table_map |-> NoTables]
Cached(table_map) == [cached |-> TRUE, table_map |-> table_map]

\* `if date_url not in html_cache`
NeedsFetchAlways(date_url, cache) == TRUE

NeedsFetch(date_url, cache) == ~cache[date_url].cached

\* `if not table_map`
IsEmptyMap(table_map) == \A r \in {"Visitors", "Home"} : table_map[r] = <<>>

\* team_pairs (lines 449-452): the team name paired with a role
TeamOfOtherRole(row, role) == IF role = "Visitors" THEN row.TeamNameHome ELSE row.TeamNameVisitors

TeamOf(row, role) == IF role = "Visitors" THEN row.TeamNameVisitors ELSE row.TeamNameHome

\* Lines 459-468: the role table tagged with role, team and the row's context.
TagTable(row, role, table) ==
    [j \in 1..Len(table) |->
        [PlayerName |-> table[j].Player,
         TeamRole |-> role,
         Team |-> TeamOf(row, role),
         Date |-> row.GameDate,
         Season |-> row.Season,
         League |-> row.LeagueName,
         ScheduleURL |-> row.ScheduleURL,
         DateURL |-> row.DateURL]]

\* Lines 448-469: row_tables, the tagged tables of the roles that have both a
\* team name and a table, Visitors first.
RowTables(row, table_map) ==
    LET one(role) == IF TeamOf(row, role) = None \/ table_map[role] = <<>>
                     THEN <<>>
                     ELSE <<TagTable(row, role, table_map[role][1])>>
    IN  one("Visitors") \o one("Home")

RECURSIVE Concat(_)
\* pd.concat(frames, ignore_index=True)
Concat(frames) == IF frames = <<>> THEN <<>> ELSE Head(frames) \o Concat(Tail(frames))

\* mode = "replace" if first_chunk else "append"
FlushModeAlwaysReplace(first) == "replace"

FlushMode(first) == IF first THEN "replace" ELSE "append"

FetchCall(i, url, ok) == [op |-> "fetch_data", row |-> i, url |-> url, ok |-> ok, df |-> <<>>, if_exists |-> None]
\* store.save_boxscores(row_df, if_exists=mode) (line 479)
SaveCallAllSoFar(i, df, mode) ==
    [op |-> "save_boxscores", row |-> i, url |-> None, ok |-> TRUE, df |-> Concat(results) \o df,
     if_exists |-> mode]

SaveCall(i, df, mode) == [op |-> "save_boxscores", row |-> i, url |-> None, ok |-> TRUE, df |-> df, if_exists |-> mode]

InitBox ==
    /\ schedule_df \in SeqsUpTo(ScheduleRows, MaxRows)
    /\ store_given \in BOOLEAN
    /\ row_idx = 0
    /\ html_cache = [u \in URLs |-> NotCached]
    /\ first_chunk = TRUE
    /\ results = <<>>
    /\ skipped_dates = <<>>
    /\ calls = <<>>
    /\ box_state = "running"
    /\ box_return = <<>>

ParkedBox ==
    /\ schedule_df = <<>>
    /\ store_given = FALSE
    /\ row_idx = 0
    /\ html_cache = [u \in URLs |-> NotCached]
    /\ first_chunk = TRUE
    /\ results = <<>>
    /\ skipped_dates = <<>>
    /\ calls = <<>>
    /\ box_state = "parked"
    /\ box_return = <<>>

\* One iteration of `for _, row in schedule_df.iterrows()` (lines 412-480).
\* outcome is what the fetch of the row's page gives, when a fetch is made.
BoxRow(outcome) ==
    /\ box_state = "running"
    /\ row_idx < Len(schedule_df)
    /\ row_idx' = row_idx + 1
    /\ UNCHANGED <<schedule_df, store_given, box_state, box_return, nonBoxVars>>
    /\ LET i == row_idx + 1
           row == schedule_df[i]
           date_url == row.DateURL
       IN  IF date_url = None
           THEN \* `if not date_url: continue`
                /\ outcome = NoFetch
                /\ UNCHANGED <<html_cache, first_chunk, results, skipped_dates, calls>>
           ELSE LET fetching == NeedsFetch(date_url, html_cache)
                IN  /\ outcome = NoFetch <=> ~fetching
                    /\ IF fetching /\ Catches(outcome)
                       THEN \* except ScraperError: skipped_dates.append(date_url); continue
                            /\ skipped_dates' = Append(skipped_dates, date_url)
                            /\ calls' = Append(calls, FetchCall(i, date_url, FALSE))
                            /\ UNCHANGED <<html_cache, first_chunk, results>>
                       ELSE LET cache == IF fetching
                                         THEN [html_cache EXCEPT ![date_url] = Cached(outcome.table_map)]
                                         ELSE html_cache
                                fetched == IF fetching
                                           THEN Append(calls, FetchCall(i, date_url, outcome # FetchFailed))
                                           ELSE calls
                                table_map == cache[date_url].table_map
                                row_tables == RowTables(row, table_map)
                                row_df == Concat(row_tables)
                            IN  /\ html_cache' = cache
                                /\ UNCHANGED skipped_dates
                                /\ IF IsEmptyMap(table_map) \/ row_tables = <<>>
                                   THEN \* `continue` at line 446 or 472
                                        /\ calls' = fetched
                                        /\ UNCHANGED <<first_chunk, results>>
                                   ELSE /\ results' = Append(results, row_df)
                                        /\ IF store_given
                                           THEN /\ calls' = Append(fetched, SaveCall(i, row_df, FlushMode(first_chunk)))
                                                /\ first_chunk' = FALSE
                                           ELSE /\ calls' = fetched
                                                /\ UNCHANGED first_chunk

\* Lines 401-403 and 482-497: the loop is over (or the schedule was empty).
BoxReturn ==
    /\ box_state = "running"
    /\ row_idx = Len(schedule_df)
    /\ box_state' = "returned"
    /\ box_return' = Concat(results)
    /\ UNCHANGED <<schedule_df, store_given, row_idx, html_cache, first_chunk, results,
                   skipped_dates, calls, nonBoxVars>>

NextBox ==
    \/ \E outcome \in Outcomes \cup {NoFetch} : BoxRow(outcome)
    \/ BoxReturn

(***************************************************************************)
(* configs/schema.py: string normalisation and identifiers                 *)
(*                                                                         *)
(* A Python str is a sequence of characters, each character a one-symbol   *)
(* string; a character outside ASCII is written by its code point.         *)
(***************************************************************************)
Letters ==
    {"a","b","c","d","e","f","g","h","i","j","k","l","m","n","o","p","q","r","s","t",
     "u","v","w","x","y","z","A","B","C","D","E","F","G","H","I","J","K","L","M","N",
     "O","P","Q","R","S","T","U","V","W","X","Y","Z"}
Digits == {"0","1","2","3","4","5","6","7","8","9"}
AsciiPunctuation == {" ", "-", "_", ".", "/", ":", "'"}
AsciiChars == Letters \cup Digits \cup AsciiPunctuation

\* unicodedata.normalize('NFD', c): u-umlaut and e-acute split into the base
\* letter and a combining mark; the sharp s has no decomposition.
NFD(c) ==
    CASE c = "U+00FC" -> <<"u", "U+0308">>
      [] c = "U+00E9" -> <<"e", "U+0301">>
      [] OTHER -> <<c>>

RECURSIVE Decompose(_)
Decompose(text) == IF text = <<>> THEN <<>> ELSE NFD(Head(text)) \o Decompose(Tail(text))

IsAscii(c) == c \in AsciiChars
\* str.isalnum() of an ASCII character
IsAlnum(c) == c \in Letters \cup Digits

\* normalize_string (lines 23-35)
normalize_string(text) ==
    IF text = <<>> THEN <<>>
    ELSE SelectSeq(Decompose(text), IsAscii)

\* str.replace(old, new) for one-character old and new
ReplaceChar(text, old, new) == [i \in 1..Len(text) |-> IF text[i] = old THEN new ELSE text[i]]

\* text[:n]
Prefix(text, n) == SubSeq(text, 1, IF n < Len(text) THEN n ELSE Len(text))

Unknown == <<"U","n","k","n","o","w","n">>

KeepsIdChar(c) == IsAlnum(c) \/ c = "_"

\* clean_for_id (lines 38-57)
clean_for_id_NoSentinel(text, max_length) ==
    IF text = <<>> THEN Unknown
    ELSE LET normalized == normalize_string(text)
             replaced == ReplaceChar(ReplaceChar(normalized, " ", "_"), "-", "_")
             cleaned == SelectSeq(replaced, KeepsIdChar)
         IN  IF max_length > 0 THEN Prefix(cleaned, max_length) ELSE cleaned

clean_for_id(text, max_length) ==
    IF text = <<>> THEN Unknown
    ELSE LET normalized == normalize_string(text)
             replaced == ReplaceChar(ReplaceChar(normalized, " ", "_"), "-", "_")
             cleaned == SelectSeq(replaced, KeepsIdChar)
             truncated == IF max_length > 0 THEN Prefix(cleaned, max_length) ELSE cleaned
         IN  IF truncated = <<>> THEN Unknown ELSE truncated

\* SeasonColumns.generate_id (lines 122-127): f"{clean_season}_{clean_league}"
SeasonColumns_generate_id(season, league) ==
    clean_for_id(season, 0) \o <<"_">> \o clean_for_id(league, 0)

\* The texts clean_for_id is called with: every string up to MaxTextLen over
\* letters, a digit, the separators, punctuation, and non-ASCII characters
\* with and without a decomposition.
TextChars == {"a", "7", " ", "-", "_", ".", "U+00FC", "U+00DF"}
TextInputs == SeqsUpTo(TextChars, MaxTextLen)

\* The labels SeasonColumns.generate_id is called with.
LabelChars == {"a", " ", "U+00E9"}
LabelInputs == SeqsUpTo(LabelChars, MaxLabelLen) \ {<<>>}

ParkedIds ==
    /\ id_text = <<>>
    /\ id_max_length = 0
    /\ id_called = FALSE
    /\ id_out = <<>>
    /\ id_calls = <<>>

\* The arguments of one clean_for_id call.
InitClean ==
    /\ id_text \in TextInputs
    /\ id_max_length \in 0..MaxLengthArg
    /\ id_called = FALSE
    /\ id_out = <<>>
    /\ id_calls = <<>>

\* The call clean_for_id(text, max_length).
CallCleanForId ==
    /\ ~id_called
    /\ id_called' = TRUE
    /\ id_out' = clean_for_id(id_text, id_max_length)
    /\ UNCHANGED <<id_text, id_max_length, id_calls, nonIdVars>>

NextClean == CallCleanForId

\* A call SeasonColumns.generate_id(season, league).
CallGenerateId(season, league) ==
    /\ Len(id_calls) < MaxIdCalls
    /\ id_calls' = Append(id_calls, [season |-> season, league |-> league,
                                     SeasonID |-> SeasonColumns_generate_id(season, league)])
    /\ UNCHANGED <<id_text, id_max_length, id_called, id_out, nonIdVars>>

NextUnitId ==
    \E season \in LabelInputs, league \in LabelInputs : CallGenerateId(season, league)


(***************************************************************************)
(* configs/schema.py: the identifiers of schedule and boxscore rows        *)
(***************************************************************************)
\* The characters of the str values that occur in the datasets; a missing
\* value (None) has none, and is falsy like the empty string.
Chars(s) ==
    CASE s = "2024-25" -> <<"2","0","2","4","-","2","5">>
      [] s = "EuroLeague" -> <<"E","u","r","o","L","e","a","g","u","e">>
      [] s = "Liga ACB" -> <<"L","i","g","a"," ","A","C","B">>
      [] s = "Lega Basket Serie A" -> <<"L","e","g","a"," ","B","a","s","k","e","t"," ","S","e","r","i","e"," ","A">>
      [] s = "Team A" -> <<"T","e","a","m"," ","A">>
      [] s = "Team B" -> <<"T","e","a","m"," ","B">>
      [] s = "Team C" -> <<"T","e","a","m"," ","C">>
      [] s = "2025-10-03" -> <<"2","0","2","5","-","1","0","-","0","3">>
      [] s = "2025-10-04" -> <<"2","0","2","5","-","1","0","-","0","4">>
      [] s = "boxscores/g1.html" -> <<"b","o","x","s","c","o","r","e","s","/","g","1",".","h","t","m","l">>
      [] s = "boxscores/g2.html" -> <<"b","o","x","s","c","o","r","e","s","/","g","2",".","h","t","m","l">>
      [] s = "boxscores/g3.html" -> <<"b","o","x","s","c","o","r","e","s","/","g","3",".","h","t","m","l">>
      [] s = "Player V" -> <<"P","l","a","y","e","r"," ","V">>
      [] s = "Player H" -> <<"P","l","a","y","e","r"," ","H">>
      [] s = "https://www.basketball-reference.com/international/boxscores/g1.html"
            -> <<"h","t","t","p","s",":","/","/","w","w","w",".","b","a","s","k","e","t","b","a","l","l","-","r","e","f","e","r","e","n","c","e",".","c","o","m","/","i","n","t","e","r","n","a","t","i","o","n","a","l","/","b","o","x","s","c","o","r","e","s","/","g","1",".","h","t","m","l">>
      [] s = "https://www.basketball-reference.com/international/boxscores/g2.html"
            -> <<"h","t","t","p","s",":","/","/","w","w","w",".","b","a","s","k","e","t","b","a","l","l","-","r","e","f","e","r","e","n","c","e",".","c","o","m","/","i","n","t","e","r","n","a","t","i","o","n","a","l","/","b","o","x","s","c","o","r","e","s","/","g","2",".","h","t","m","l">>
      [] s = None -> <<>>
      [] OTHER -> <<>>

\* str.replace(c, "") for a one-character c
IsNotHyphen(c) == c # "-"
IsNotSpace(c) == c # " "

RECURSIVE RemoveSub(_, _)
\* str.replace(sub, "")
RemoveSub(text, sub) ==
    IF Len(text) < Len(sub) THEN text
    ELSE IF SubSeq(text, 1, Len(sub)) = sub
         THEN RemoveSub(SubSeq(text, Len(sub) + 1, Len(text)), sub)
         ELSE <<Head(text)>> \o RemoveSub(Tail(text), sub)

\* text.split(sep)[-1]
LastSegment(text, sep) ==
    LET at == {i \in 1..Len(text) : text[i] = sep}
    IN  IF at = {} THEN text
        ELSE SubSeq(text, (CHOOSE i \in at : \A j \in at : j <= i) + 1, Len(text))

Contains(text, c) == \E i \in 1..Len(text) : text[i] = c

\* ScheduleColumns.generate_id (lines 201-210)
ScheduleColumns_generate_id(game_date, home_team, visitor_team, season, league) ==
    LET clean_date == Prefix(SelectSeq(SelectSeq(game_date, IsNotHyphen), IsNotSpace), 8)
        clean_home == clean_for_id(home_team, 15)
        clean_visitor == clean_for_id(visitor_team, 15)
        clean_season == clean_for_id(season, 0)
        clean_league == clean_for_id(league, 15)
    IN  clean_date \o <<"_">> \o clean_home \o <<"_","v","s","_">> \o clean_visitor
            \o <<"_">> \o clean_season \o <<"_">> \o clean_league

\* ScheduleColumns.generate_season_id (lines 212-215)
ScheduleColumns_generate_season_id_Truncating(season, league) ==
    clean_for_id(season, 0) \o <<"_">> \o clean_for_id(league, 15)

ScheduleColumns_generate_season_id(season, league) ==
    SeasonColumns_generate_id(season, league)

UNKNOWN_GAME == <<"U","N","K","N","O","W","N","_","G","A","M","E">>
DotHtml == <<".","h","t","m","l">>

\* BoxscoreColumns.generate_game_id_from_url (lines 380-392)
BoxscoreColumns_generate_game_id_from_url(date_url, season, league) ==
    IF date_url = <<>> THEN UNKNOWN_GAME
    ELSE LET url_key == IF Contains(date_url, "/")
                        THEN RemoveSub(LastSegment(date_url, "/"), DotHtml)
                        ELSE date_url
         IN  url_key \o <<"_">> \o clean_for_id(season, 0) \o <<"_">> \o clean_for_id(league, 15)

\* BoxscoreColumns.generate_id (lines 373-378)
BoxscoreColumns_generate_id(game_id, player_name, team) ==
    game_id \o <<"_">> \o clean_for_id(player_name, 25) \o <<"_">> \o clean_for_id(team, 15)

(***************************************************************************)
(* storage/database_store.py                                               *)
(*                                                                         *)
(* A DataFrame is its column names in order and its rows, each row a       *)
(* function from the column names to values; a table is a DataFrame.       *)
(***************************************************************************)
Frame(cols, rows) == [cols |-> cols, rows |-> rows]
NoFrame == Frame(<<>>, <<>>)
Columns(df) == {df.cols[i] : i \in 1..Len(df.cols)}
IsEmptyFrame(df) == df.rows = <<>>

\* The unit rows parse_data yields (lines 287-300).
SeasonDataColumns == <<"Season", "SeasonURL", "League", "LeagueURL", "ScheduleURL">>
Unit(season, league) ==
    [Season |-> season, SeasonURL |-> None, League |-> league, LeagueURL |-> None,
     ScheduleURL |-> "league-a/2024-schedule.html"]
UnitEuro == Unit("2024-25", "EuroLeague")
UnitAcb == Unit("2024-25", "Liga ACB")
UnitSerieA == Unit("2024-25", "Lega Basket Serie A")

\* The schedule rows scrape_league_schedule yields (lines 337-352).
ScheduleDataColumns ==
    <<"GameDate", "TeamNameHome", "TeamHomePoints", "TeamNameVisitors", "TeamVisitorsPoints",
      "HasGoneOvertime", "Notes", "DateURL", "Season", "LeagueName", "ScheduleURL">>
Game(date, home, visitors, date_url, unit) ==
    [GameDate |-> date, TeamNameHome |-> home, TeamHomePoints |-> 85,
     TeamNameVisitors |-> visitors, TeamVisitorsPoints |-> 80, HasGoneOvertime |-> None,
     Notes |-> None, DateURL |-> date_url, Season |-> unit.Season,
     LeagueName |-> unit.League, ScheduleURL |-> unit.ScheduleURL]
GameEuro == Game("2025-10-03", "Team A", "Team B", "boxscores/g1.html", UnitEuro)
GameAcb == Game("2025-10-04", "Team C", "Team A", "boxscores/g2.html", UnitAcb)
GameSerieA == Game("2025-10-04", "Team B", "Team C", "boxscores/g3.html", UnitSerieA)

\* The detail rows scrape_boxscore_tables flushes for one schedule row whose
\* page has a table for each role (lines 448-474).
BoxscoreDataColumns ==
    <<"PlayerName", "TeamRole", "Team", "Date", "Season", "League", "ScheduleURL", "DateURL">>
BothTables == [Visitors |-> <<VisitorsTable>>, Home |-> <<HomeTable>>]
DetailRows(game) == Concat(RowTables(game, BothTables))

\* The datasets the save operations are called with.
SeasonFrames ==
    {Frame(SeasonDataColumns, rows) : rows \in {<<>>, <<UnitEuro>>, <<UnitEuro, UnitAcb, UnitSerieA>>}}
ScheduleFrames ==
    {Frame(ScheduleDataColumns, rows) : rows \in {<<>>, <<GameEuro>>, <<GameEuro, GameAcb, GameSerieA>>}}
BoxscoreFrames ==
    {Frame(BoxscoreDataColumns, rows) :
        rows \in {<<>>, DetailRows(GameEuro), DetailRows(GameSerieA) \o DetailRows(GameAcb)}}
IfExistsModes == {"replace", "append"}

\* df[col] = values: the column is added at the end when new.
WithColumn(df, col, values) ==
    Frame(IF col \in Columns(df) THEN df.cols ELSE Append(df.cols, col),
          [i \in 1..Len(df.rows) |-> (col :> values[i]) @@ df.rows[i]])

\* df[cols]: the columns in the order given.
Reordered(df, first) ==
    LET IsOther(c) == \A i \in 1..Len(first) : first[i] # c
    IN  Frame(first \o SelectSeq(df.cols, IsOther), df.rows)

\* row.get(col, "")
RowGet(row, col) == IF col \in DOMAIN row THEN row[col] ELSE None

\* chunk.to_sql(table_name, engine, if_exists=mode, index=False): replace drops
\* the table and creates it from the chunk, append adds the chunk's rows.
to_sql(table, chunk, mode) ==
    IF mode = "replace" \/ table = NoFrame
    THEN chunk
    ELSE Frame(table.cols, table.rows \o chunk.rows)

\* mode = if_exists if start == 0 else "append"
ChunkModeAlwaysCallers(start, if_exists) == if_exists

ChunkMode(start, if_exists) == IF start = 0 THEN if_exists ELSE "append"

RECURSIVE WriteChunks(_, _, _, _, _)
\* The loop of _write_dataframe (lines 165-183) from offset start on: the table
\* after it, the mode of every to_sql call, and the rows written.
WriteChunks(table, df, start, if_exists, size) ==
    IF start >= Len(df.rows)
    THEN [table |-> table, modes |-> <<>>, written |-> 0]
    ELSE LET stop == IF start + size < Len(df.rows) THEN start + size ELSE Len(df.rows)
             chunk == Frame(df.cols, SubSeq(df.rows, start + 1, stop))
             mode == ChunkMode(start, if_exists)
             rest == WriteChunks(to_sql(table, chunk, mode), df, start + size, if_exists, size)
         IN  [table |-> rest.table,
              modes |-> <<mode>> \o rest.modes,
              written |-> Len(chunk.rows) + rest.written]

\* df.to_sql of the whole frame, whatever it holds
write_dataframe_Unchecked(table, df, if_exists, size) ==
    IF df.rows = <<>>
    THEN [table |-> to_sql(table, df, if_exists), modes |-> <<if_exists>>, written |-> 0]
    ELSE WriteChunks(table, df, 0, if_exists, size)

\* _write_dataframe (lines 155-190)
write_dataframe(table, df, if_exists, size) ==
    IF IsEmptyFrame(df)
    THEN [table |-> table, modes |-> <<>>, written |-> 0]
    ELSE WriteChunks(table, df, 0, if_exists, size)

\* save_seasons up to its call of _write_dataframe (lines 53-65)
SeasonsToWrite(df) ==
    IF "SeasonID" \notin Columns(df)
    THEN LET season_id(row) == SeasonColumns_generate_id(Chars(row["Season"]), Chars(row["League"]))
         IN  Reordered(WithColumn(df, "SeasonID", [i \in 1..Len(df.rows) |-> season_id(df.rows[i])]), <<"SeasonID">>)
    ELSE df

\* save_schedules up to its call of _write_dataframe (lines 74-102)
SchedulesToWrite(df) ==
    LET season_id(row) ==
            ScheduleColumns_generate_season_id(Chars(row["Season"]), Chars(row["LeagueName"]))
        game_id(row) ==
            ScheduleColumns_generate_id(Chars(row["GameDate"]), Chars(row["TeamNameHome"]),
                Chars(row["TeamNameVisitors"]), Chars(row["Season"]), Chars(row["LeagueName"]))
        with_fk == IF "SeasonID" \notin Columns(df) THEN WithColumn(df, "SeasonID", [i \in 1..Len(df.rows) |-> season_id(df.rows[i])])
                   ELSE df
        with_pk == IF "GameID" \notin Columns(with_fk)
                   THEN WithColumn(with_fk, "GameID", [i \in 1..Len(with_fk.rows) |-> game_id(with_fk.rows[i])])
                   ELSE with_fk
    IN  Reordered(with_pk, <<"GameID", "SeasonID">>)

\* save_boxscores up to its call of _write_dataframe (lines 111-138)
BoxscoresToWrite(df) ==
    LET game_id(row) ==
            BoxscoreColumns_generate_game_id_from_url(Chars(RowGet(row, "DateURL")),
                Chars(RowGet(row, "Season")), Chars(RowGet(row, "League")))
        boxscore_id(row) ==
            BoxscoreColumns_generate_id(row["GameID"], Chars(RowGet(row, "PlayerName")),
                Chars(RowGet(row, "Team")))
        with_fk == IF "GameID" \notin Columns(df) THEN WithColumn(df, "GameID", [i \in 1..Len(df.rows) |-> game_id(df.rows[i])])
                   ELSE df
        with_pk == IF "BoxscoreID" \notin Columns(with_fk)
                   THEN WithColumn(with_fk, "BoxscoreID",
                            [i \in 1..Len(with_fk.rows) |-> boxscore_id(with_fk.rows[i])])
                   ELSE with_fk
    IN  Reordered(with_pk, <<"BoxscoreID", "GameID">>)

\* The record kept of a save_* call.
SaveRecord(op, if_exists, frame, before, out) ==
    [op |-> op, if_exists |-> if_exists, frame |-> frame, before |-> before,
     modes |-> out.modes, written |-> out.written]
NoSave == [op |-> "none", if_exists |-> "none", frame |-> NoFrame, before |-> NoFrame,
           modes |-> <<>>, written |-> 0]

InitDb ==
    /\ chunk_size \in 1..MaxChunk
    /\ season_table = NoFrame
    /\ schedule_table = NoFrame
    /\ boxscore_table = NoFrame
    /\ db_saves = 0
    /\ db_last = NoSave

ParkedDb ==
    /\ chunk_size = 1
    /\ season_table = NoFrame
    /\ schedule_table = NoFrame
    /\ boxscore_table = NoFrame
    /\ db_saves = 0
    /\ db_last = NoSave

\* save_seasons(df, if_exists) (lines 48-67)
save_seasons(df, if_exists) ==
    /\ db_saves < MaxSaves
    /\ db_saves' = db_saves + 1
    /\ LET frame == IF IsEmptyFrame(df) THEN df ELSE SeasonsToWrite(df)
           out == write_dataframe(season_table, frame, if_exists, chunk_size)
       IN  /\ season_table' = out.table
           /\ db_last' = SaveRecord("save_seasons", if_exists, frame, season_table, out)
    /\ UNCHANGED <<chunk_size, schedule_table, boxscore_table, nonDbVars>>

\* save_schedules(df, if_exists) (lines 69-104)
save_schedules(df, if_exists) ==
    /\ db_saves < MaxSaves
    /\ db_saves' = db_saves + 1
    /\ LET frame == IF IsEmptyFrame(df) THEN df ELSE SchedulesToWrite(df)
           out == write_dataframe(schedule_table, frame, if_exists, chunk_size)
       IN  /\ schedule_table' = out.table
           /\ db_last' = SaveRecord("save_schedules", if_exists, frame, schedule_table, out)
    /\ UNCHANGED <<chunk_size, season_table, boxscore_table, nonDbVars>>

\* save_boxscores(df, if_exists) (lines 106-140)
save_boxscores(df, if_exists) ==
    /\ db_saves < MaxSaves
    /\ db_saves' = db_saves + 1
    /\ LET frame == IF IsEmptyFrame(df) THEN df ELSE BoxscoresToWrite(df)
           out == write_dataframe(boxscore_table, frame, if_exists, chunk_size)
       IN  /\ boxscore_table' = out.table
           /\ db_last' = SaveRecord("save_boxscores", if_exists, frame, boxscore_table, out)
    /\ UNCHANGED <<chunk_size, season_table, schedule_table, nonDbVars>>

\* _write_dataframe(df, self.season_table, if_exists) called on its own
\* (lines 155-190)
CallWriteDataframe(df, if_exists) ==
    /\ db_saves < MaxSaves
    /\ db_saves' = db_saves + 1
    /\ LET out == write_dataframe(season_table, df, if_exists, chunk_size)
       IN  /\ season_table' = out.table
           /\ db_last' = SaveRecord("_write_dataframe", if_exists, df, season_table, out)
    /\ UNCHANGED <<chunk_size, schedule_table, boxscore_table, nonDbVars>>

\* The frames _write_dataframe is called with: what save_seasons hands it, an
\* empty frame, or None.
WrittenFrames == {NoFrame} \cup {IF IsEmptyFrame(df) THEN df ELSE SeasonsToWrite(df) : df \in SeasonFrames}

NextDb ==
    \/ \E df \in SeasonFrames \cup {NoFrame}, if_exists \in IfExistsModes : save_seasons(df, if_exists)
    \/ \E df \in ScheduleFrames \cup {NoFrame}, if_exists \in IfExistsModes : save_schedules(df, if_exists)
    \/ \E df \in BoxscoreFrames \cup {NoFrame}, if_exists \in IfExistsModes : save_boxscores(df, if_exists)
    \/ \E df \in WrittenFrames, if_exists \in IfExistsModes : CallWriteDataframe(df, if_exists)


(***************************************************************************)
(* scraping/basketball_reference_scraper.py: scrape_league_schedule and    *)
(* scrape_league_schedules                                                 *)
(***************************************************************************)
\* A cell that holds no string (NaN, as read_html gives for an empty cell).
NaN == "NaN"

\* _parse_game_date (lines 213-224) on the Date cells of a listing table: a
\* non-string, a cell without a one- or two-digit number, and a cell
\* pd.to_datetime cannot read give None; a date gives its day.
parse_game_date(value) ==
    CASE value = "Fri, Oct 3, 2025" -> "2025-10-03"
      [] value = " Sat, Oct 4, 2025 " -> "2025-10-04"
      [] value = "October" -> None
      [] value = "Playoffs 2025" -> None
      [] value = "Game 7" -> None
      [] value = NaN -> None
      [] OTHER -> None

\* urljoin(self.base_url, href) (line 337)
urljoin(href) ==
    CASE href = "/international/boxscores/g1.html"
            -> "https://www.basketball-reference.com/international/boxscores/g1.html"
      [] href = "/international/boxscores/g2.html"
            -> "https://www.basketball-reference.com/international/boxscores/g2.html"
      [] OTHER -> None

\* The body rows of a listing table: the cells read_html gives and the link
\* of the Date cell.
RawRow(date, team, opp, href) == [Date |-> date, Team |-> team, Opp |-> opp, href |-> href]
RawRows ==
    {RawRow("Fri, Oct 3, 2025", "Team A", "Team B", "/international/boxscores/g1.html"),
     RawRow(" Sat, Oct 4, 2025 ", "Team C", "Team A", "/international/boxscores/g2.html"),
     RawRow("October", NaN, NaN, None),
     RawRow("Game 7", "Team B", "Team C", None),
     RawRow(NaN, NaN, NaN, None)}

\* What fetch_data and _parse_first_table give for a listing URL: fetch is
\* "ok" or "FetchError"; has_table tells whether the page has a table;
\* has_date whether that table has a Date column; link_table is "ok" when
\* the table read with extract_links has a Date column, "no_date" when it
\* does not, "none" when that read failed (link_df is None).
Page(fetch, has_table, has_date, link_table, rows) ==
    [fetch |-> fetch, has_table |-> has_table, has_date |-> has_date,
     link_table |-> link_table, rows |-> rows]
PageFetchError == Page("FetchError", FALSE, FALSE, "none", <<>>)
PageNoTable == Page("ok", FALSE, FALSE, "none", <<>>)
PageNoDateColumn == Page("ok", TRUE, FALSE, "no_date", <<>>)
TablePage(link_table, rows) == Page("ok", TRUE, TRUE, link_table, rows)

\* series.loc[valid_mask].reset_index(drop=True)
RECURSIVE Loc(_, _)
Loc(series, mask) ==
    IF series = <<>> THEN <<>>
    ELSE (IF Head(mask) THEN <<Head(series)>> ELSE <<>>) \o Loc(Tail(series), Tail(mask))

\* The outcome of a call: the exception that left it ("None" when it
\* returned) and the rows it returned.
Raised(exc) == [exc |-> exc, rows |-> <<>>]
ReturnedRows(rows) == [exc |-> None, rows |-> rows]

\* The exceptions `except ScraperError` catches.
ScraperErrors == {"FetchError", "ParseError"}

\* scrape_league_schedule (lines 312-354), given the page its URL answers with
scrape_league_schedule(season, league, schedule_url, page) ==
    IF page.fetch # "ok" THEN Raised("FetchError")                 \* line 314
    ELSE IF ~page.has_table THEN Raised("ParseError")              \* line 315, raised at line 201
    ELSE IF ~page.has_date THEN Raised("KeyError")                 \* line 329: schedule_df["Date"]
    ELSE
        LET n == Len(page.rows)
            date_urls == [i \in 1..n |-> IF page.link_table = "ok" THEN page.rows[i].href ELSE None]
            parsed_dates == [i \in 1..n |-> parse_game_date(page.rows[i].Date)]
            valid_mask == [i \in 1..n |-> parsed_dates[i] # None]
            kept_rows == Loc(page.rows, valid_mask)
            kept_dates == Loc(parsed_dates, valid_mask)
            kept_urls == Loc(date_urls, valid_mask)
        IN  IF kept_dates = <<>>
            THEN Raised("AttributeError")                          \* line 336: .dt of a Series without dates
            ELSE ReturnedRows(
                    [i \in 1..Len(kept_rows) |->
                        \* lines 336-352; the table has no PTS, PTS.1, OT and Notes columns
                        [GameDate |-> kept_dates[i],
                         TeamNameHome |-> kept_rows[i].Team,
                         TeamHomePoints |-> None,
                         TeamNameVisitors |-> kept_rows[i].Opp,
                         TeamVisitorsPoints |-> None,
                         HasGoneOvertime |-> None,
                         Notes |-> None,
                         DateURL |-> IF kept_urls[i] # None THEN urljoin(kept_urls[i]) ELSE None,
                         Season |-> season,
                         LeagueName |-> league,
                         ScheduleURL |-> schedule_url]])

\* The unit rows scrape_league_schedules is called with.
ListingURLs == {"league-a/2024-schedule.html", None}
UnitRows == {[unit EXCEPT !.ScheduleURL = url] : unit \in {UnitEuro, UnitAcb}, url \in ListingURLs}

\* The pages a listing URL answers with.
ListingPages ==
    {PageFetchError, PageNoTable, PageNoDateColumn,
     TablePage("ok", <<RawRow("October", NaN, NaN, None)>>),
     TablePage("ok", <<RawRow("Fri, Oct 3, 2025", "Team A", "Team B", "/international/boxscores/g1.html")>>),
     TablePage("none", <<RawRow("October", NaN, NaN, None),
                         RawRow(" Sat, Oct 4, 2025 ", "Team C", "Team A", "/international/boxscores/g2.html")>>)}
NoPage == Page("none", FALSE, FALSE, "none", <<>>)

InitSched ==
    /\ base_df \in SeqsUpTo(UnitRows, MaxUnits)
    /\ sched_idx = 0
    /\ schedules = <<>>
    /\ sched_log = <<>>
    /\ sched_state = "running"
    /\ sched_return = Raised(None)

ParkedSched ==
    /\ base_df = <<>>
    /\ sched_idx = 0
    /\ schedules = <<>>
    /\ sched_log = <<>>
    /\ sched_state = "parked"
    /\ sched_return = Raised(None)

\* One iteration of `for _, row in base_df.iterrows()` (lines 370-387); page is
\* what the row's listing URL answers with.
SchedUnit(page) ==
    /\ sched_state = "running"
    /\ sched_idx < Len(base_df)
    /\ LET row == base_df[sched_idx + 1]
           schedule_url == row.ScheduleURL
       IN  IF schedule_url = None
           THEN /\ page = NoPage
                /\ sched_idx' = sched_idx + 1
                /\ sched_log' = Append(sched_log, [page |-> page, out |-> Raised(None), fetched |-> FALSE])
                /\ UNCHANGED <<schedules, sched_state, sched_return>>
           ELSE /\ page \in ListingPages
                /\ LET out == scrape_league_schedule(row.Season, row.League, schedule_url, page)
                   IN  /\ sched_log' = Append(sched_log, [page |-> page, out |-> out, fetched |-> TRUE])
                       /\ sched_idx' = sched_idx + 1
                       /\ IF out.exc = None
                          THEN /\ schedules' = Append(schedules, out.rows)
                               /\ UNCHANGED <<sched_state, sched_return>>
                          ELSE IF out.exc \in ScraperErrors
                          THEN UNCHANGED <<schedules, sched_state, sched_return>>
                          ELSE /\ sched_state' = "raised"
                               /\ sched_return' = Raised(out.exc)
                               /\ UNCHANGED schedules
    /\ UNCHANGED <<base_df, nonSchedVars>>

\* After the loop (lines 389-394)
SchedReturn ==
    /\ sched_state = "running"
    /\ sched_idx = Len(base_df)
    /\ sched_state' = "returned"
    /\ sched_return' = ReturnedRows(Concat(schedules))
    /\ UNCHANGED <<base_df, sched_idx, schedules, sched_log, nonSchedVars>>

NextSched ==
    \/ \E page \in ListingPages \cup {NoPage} : SchedUnit(page)
    \/ SchedReturn

\* One call of scrape_league_schedule on a page with a listing table.
ListingTables ==
    {TablePage(link_table, rows) : link_table \in {"ok", "no_date", "none"},
                                   rows \in SeqsUpTo(RawRows, MaxTableRows)}

InitListing ==
    /\ list_page \in ListingTables
    /\ list_called = FALSE
    /\ list_out = Raised(None)

ParkedListing ==
    /\ list_page = NoPage
    /\ list_called = FALSE
    /\ list_out = Raised(None)

CallScrapeLeagueSchedule ==
    /\ ~list_called
    /\ list_called' = TRUE
    /\ list_out' = scrape_league_schedule("2024-25", "EuroLeague", "league-a/2024-schedule.html", list_page)
    /\ UNCHANGED <<list_page, nonListVars>>

NextListing == CallScrapeLeagueSchedule

(***************************************************************************)
(* storage/database_store.py: the constructor; main.py: main               *)
(***************************************************************************)
PostgresURL == "postgresql+psycopg://db/hoops"
CustomSqliteURL == "sqlite:///custom.db"
\* DatabaseConfig.DEFAULT_SQLITE_URL (settings.py line 66)
DEFAULT_SQLITE_URL == "sqlite:///data/basketball_hoops.db"
PrimaryURLs == {PostgresURL, CustomSqliteURL}
Schemas == {"basketball_hoops", ""}

\* url.startswith("sqlite")
StartsWithSqlite(url) == url \in {CustomSqliteURL, DEFAULT_SQLITE_URL}

Candidate(url, schema) == [url |-> url, schema |-> schema]

\* candidates (lines 208-210)
OnlyPrimary(primary, schema) == <<Candidate(primary, schema)>>

Candidates(primary, schema) ==
    <<Candidate(primary, schema)>>
        \o (IF ~StartsWithSqlite(primary) THEN <<Candidate(DEFAULT_SQLITE_URL, None)>> ELSE <<>>)

\* What create_engine and _ensure_schema do for a candidate (lines 216-220).
EngineOutcomes == {"ok", "SQLAlchemyError"}

\* main's store: None after the caught RuntimeError (line 67), or the store.
NoStoreButReady == [ready |-> TRUE, url |-> None, schema |-> None]

NoStore == [ready |-> FALSE, url |-> None, schema |-> None]
Store(url, schema) == [ready |-> TRUE, url |-> url, schema |-> schema]

\* One iteration of `for candidate_url, candidate_schema in candidates`
\* (lines 213-234).
InitAttempt(outcome) ==
    /\ init_state = "running"
    /\ Len(attempts) < Len(Candidates(primary_url, config_schema))
    /\ LET candidate == Candidates(primary_url, config_schema)[Len(attempts) + 1]
       IN  /\ attempts' = Append(attempts, [url |-> candidate.url, schema |-> candidate.schema,
                                            outcome |-> outcome])
           /\ IF outcome = "ok"
              THEN /\ store' = Store(candidate.url, candidate.schema)
                   /\ init_state' = "returned"
                   /\ main_pc' = "units"
              ELSE UNCHANGED <<store, init_state, main_pc>>
    /\ UNCHANGED <<primary_url, config_schema, main_mode, main_target_date, main_exc, seasons_df,
                   schedules_df, boxscores_df, main_calls, dbVars, nonMainVars>>

\* Every candidate failed: the constructor raises RuntimeError (lines 236-240),
\* main catches it and goes on with store = None (lines 65-67).
InitRaises ==
    /\ init_state = "running"
    /\ Len(attempts) = Len(Candidates(primary_url, config_schema))
    /\ init_state' = "raised"
    /\ store' = NoStore
    /\ main_pc' = "units"
    /\ UNCHANGED <<primary_url, config_schema, attempts, main_mode, main_target_date, main_exc, seasons_df,
                   schedules_df, boxscores_df, main_calls, dbVars, nonMainVars>>

\* A page fetch or a store save made by main or by what it calls.
Call(op, arg) == [op |-> op, arg |-> arg]

\* df.head(n)
head(rows, n) == IF Len(rows) <= n THEN rows ELSE SubSeq(rows, 1, n)

\* The outcomes of scraper.scrape(): fetch_data or parse_data raises
\* (ValueError when the table has no row with both labels), or parse_data
\* returns unit rows, at least one.
ScrapeOutcomes ==
    {Raised("FetchError"), Raised("ParseError"), Raised("ValueError")}
        \cup {ReturnedRows(rows) : rows \in SeqsUpTo(UnitRows, MaxUnits) \ {<<>>}}

\* seasons_df = scraper.scrape().head(10) (lines 69-70)
MainUnits(outcome) ==
    /\ main_pc = "units"
    /\ main_calls' = Append(main_calls, Call("fetch_data", "units"))
    /\ IF outcome.exc # None
       THEN /\ main_pc' = "raised"
            /\ main_exc' = outcome.exc
            /\ UNCHANGED seasons_df
       ELSE /\ seasons_df' = head(outcome.rows, 10)
            /\ main_pc' = "listings"
            /\ UNCHANGED main_exc
    /\ UNCHANGED <<main_mode, main_target_date, schedules_df, boxscores_df, initVars, dbVars, nonMainVars>>

RECURSIVE ScrapeLeagueSchedules(_, _, _)
\* scrape_league_schedules(df) (lines 366-394) from row i on, pages[i] being
\* what the listing URL of row i answers with: the rows returned or the
\* exception that left the call, and the fetches made.
ScrapeLeagueSchedules(df, pages, i) ==
    IF i > Len(df) THEN [out |-> ReturnedRows(<<>>), fetched |-> <<>>]
    ELSE IF df[i].ScheduleURL = None THEN ScrapeLeagueSchedules(df, pages, i + 1)
    ELSE LET one == scrape_league_schedule(df[i].Season, df[i].League, df[i].ScheduleURL, pages[i])
             this == <<Call("fetch_data", df[i].ScheduleURL)>>
         IN  IF one.exc # None /\ one.exc \notin ScraperErrors
             THEN [out |-> one, fetched |-> this]
             ELSE LET rest == ScrapeLeagueSchedules(df, pages, i + 1)
                  IN  [out |-> IF rest.out.exc # None THEN rest.out
                               ELSE ReturnedRows(one.rows \o rest.out.rows),
                       fetched |-> this \o rest.fetched]

\* schedules_df = scraper.scrape_league_schedules(seasons_df) (line 72)
MainListings(pages) ==
    /\ main_pc = "listings"
    /\ DOMAIN pages = 1..Len(seasons_df)
    /\ \A i \in 1..Len(seasons_df) : pages[i] = NoPage <=> seasons_df[i].ScheduleURL = None
    /\ LET run == ScrapeLeagueSchedules(seasons_df, pages, 1)
       IN  /\ main_calls' = main_calls \o run.fetched
           /\ IF run.out.exc # None
              THEN /\ main_pc' = "raised"
                   /\ main_exc' = run.out.exc
                   /\ UNCHANGED schedules_df
              ELSE /\ schedules_df' = run.out.rows
                   /\ main_pc' = "summary"
                   /\ UNCHANGED main_exc
    /\ UNCHANGED <<main_mode, main_target_date, seasons_df, boxscores_df, initVars, dbVars, nonMainVars>>

\* filter_schedule_by_date (lines 356-364)
filter_schedule_by_date(rows, target) ==
    LET OnTarget(row) == row.GameDate = target
    IN  IF target = None \/ rows = <<>> THEN rows ELSE SelectSeq(rows, OnTarget)

\* The columns of the dataset scrape_league_schedules returns from scraped
\* pages (lines 347-352).
HasColumn(rows, col) == \A i \in 1..Len(rows) : col \in DOMAIN rows[i]

\* Lines 73-91: the filter and the summary log of the schedule rows.
MainSummary ==
    /\ main_pc = "summary"
    /\ LET filtered == filter_schedule_by_date(schedules_df, main_target_date)
       IN  /\ schedules_df' = filtered
           /\ IF filtered # <<>> /\ ~HasColumn(filtered, "League")
              THEN \* schedules_df['League'] (line 84)
                   /\ main_pc' = "raised"
                   /\ main_exc' = "KeyError"
              ELSE /\ main_pc' = "details"
                   /\ UNCHANGED main_exc
    /\ UNCHANGED <<main_mode, main_target_date, seasons_df, boxscores_df, main_calls, initVars, dbVars, nonMainVars>>

\* The pages a detail URL answers with.
DetailOutcomes == {FetchFailed, Parsed(BothTables), Parsed(NoTables)}

RECURSIVE ScrapeBoxscoreTables(_, _, _, _, _, _)
\* scrape_boxscore_tables(schedule_df, store) (lines 396-497) from row i on,
\* outcomes[i] being what the fetch of row i's page gives when it is made:
\* the rows returned, and the fetch_data and save_boxscores calls made.
ScrapeBoxscoreTables(rows, outcomes, i, cache, first, with_store) ==
    IF i > Len(rows) THEN [rows |-> <<>>, calls |-> <<>>]
    ELSE
        LET row == rows[i]
            date_url == row.DateURL
            fetching == date_url # None /\ (date_url \notin DOMAIN cache \/ NeedsFetch(date_url, cache))
            fetch == IF fetching THEN <<Call("fetch_data", date_url)>> ELSE <<>>
        IN  IF date_url = None THEN ScrapeBoxscoreTables(rows, outcomes, i + 1, cache, first, with_store)
            ELSE IF fetching /\ Catches(outcomes[i])
            THEN LET rest == ScrapeBoxscoreTables(rows, outcomes, i + 1, cache, first, with_store)
                 IN  [rows |-> rest.rows, calls |-> fetch \o rest.calls]
            ELSE LET now == IF fetching
                            THEN (date_url :> Cached(outcomes[i].table_map)) @@ cache
                            ELSE cache
                     row_tables == RowTables(row, now[date_url].table_map)
                     row_df == Concat(row_tables)
                     flushed == row_tables # <<>> /\ with_store
                     save == IF flushed THEN <<Call("save_boxscores", FlushMode(first))>> ELSE <<>>
                     rest == ScrapeBoxscoreTables(rows, outcomes, i + 1, now,
                                                  first /\ ~flushed, with_store)
                 IN  [rows |-> row_df \o rest.rows, calls |-> fetch \o save \o rest.calls]

\* boxscores_df = scraper.scrape_boxscore_tables(schedules_df, store=store)
\* (lines 93-103); the rows flushed on the way are in the boxscores table.
MainDetails(outcomes) ==
    /\ main_pc = "details"
    /\ outcomes \in [1..Len(schedules_df) -> DetailOutcomes]
    /\ LET run == ScrapeBoxscoreTables(schedules_df, outcomes, 1, <<>>, TRUE, store.ready)
       IN  /\ boxscores_df' = run.rows
           /\ main_calls' = main_calls \o run.calls
           /\ boxscore_table' =
                 IF store.ready /\ run.rows # <<>>
                 THEN BoxscoresToWrite(Frame(BoxscoreDataColumns, run.rows))
                 ELSE boxscore_table
    /\ main_pc' = "save_seasons"
    /\ UNCHANGED <<main_mode, main_target_date, main_exc, seasons_df, schedules_df, initVars,
                   chunk_size, season_table, schedule_table, db_saves, db_last, nonMainVars>>

\* Lines 105-112
MainSaveSeasons ==
    /\ main_pc = "save_seasons"
    /\ IF store.ready /\ main_mode = "full" /\ seasons_df # <<>>
       THEN LET frame == SeasonsToWrite(Frame(SeasonDataColumns, seasons_df))
                out == write_dataframe(season_table, frame, "replace", chunk_size)
            IN  /\ season_table' = out.table
                /\ main_calls' = Append(main_calls, Call("save_seasons", "replace"))
       ELSE UNCHANGED <<season_table, main_calls>>
    /\ main_pc' = "save_schedules"
    /\ UNCHANGED <<main_mode, main_target_date, main_exc, seasons_df, schedules_df, boxscores_df, initVars,
                   chunk_size, schedule_table, boxscore_table, db_saves, db_last, nonMainVars>>

\* if_exists = "replace" if mode == "full" else "append" (line 115)
SaveMode(m) == IF m = "full" THEN "replace" ELSE "append"

\* Lines 114-125
MainSaveSchedules ==
    /\ main_pc = "save_schedules"
    /\ IF store.ready /\ schedules_df # <<>>
       THEN LET frame == SchedulesToWrite(Frame(ScheduleDataColumns, schedules_df))
                out == write_dataframe(schedule_table, frame, SaveMode(main_mode), chunk_size)
            IN  /\ schedule_table' = out.table
                /\ main_calls' = Append(main_calls, Call("save_schedules", SaveMode(main_mode)))
       ELSE UNCHANGED <<schedule_table, main_calls>>
    /\ main_pc' = "done"
    /\ UNCHANGED <<main_mode, main_target_date, main_exc, seasons_df, schedules_df, boxscores_df, initVars,
                   chunk_size, season_table, boxscore_table, db_saves, db_last, nonMainVars>>

TargetDates == {None, "2025-10-03"}

\* main(mode, target_date) at line 63, about to construct the store.
InitMain ==
    /\ main_mode \in {"full", "daily"}
    /\ main_target_date \in TargetDates
    /\ primary_url \in PrimaryURLs
    /\ config_schema \in Schemas
    /\ attempts = <<>>
    /\ init_state = "running"
    /\ store = NoStore
    /\ main_pc = "store"
    /\ main_exc = None
    /\ seasons_df = <<>>
    /\ schedules_df = <<>>
    /\ boxscores_df = <<>>
    /\ main_calls = <<>>

ParkedMain ==
    /\ main_mode = "full"
    /\ main_target_date = None
    /\ primary_url = CustomSqliteURL
    /\ config_schema = ""
    /\ attempts = <<>>
    /\ init_state = "parked"
    /\ store = NoStore
    /\ main_pc = "parked"
    /\ main_exc = None
    /\ seasons_df = <<>>
    /\ schedules_df = <<>>
    /\ boxscores_df = <<>>
    /\ main_calls = <<>>

NextMain ==
    \/ \E outcome \in EngineOutcomes : InitAttempt(outcome)
    \/ InitRaises
    \/ \E outcome \in ScrapeOutcomes : MainUnits(outcome)
    \/ \E pages \in [1..Len(seasons_df) -> ListingPages \cup {NoPage}] : MainListings(pages)
    \/ MainSummary
    \/ \E outcomes \in [1..Len(schedules_df) -> DetailOutcomes] : MainDetails(outcomes)
    \/ MainSaveSeasons
    \/ MainSaveSchedules

(***************************************************************************)
(* scraping/basketball_reference_scraper.py: parse_data and the listing    *)
(* URL of a unit row.  URLs are sequences of characters; None and the      *)
(* empty string, both falsy, are the empty sequence.                       *)
(***************************************************************************)
NoURL == <<>>
DotHtm == <<".","h","t","m">>
ScheduleSuffix == <<"-","s","c","h","e","d","u","l","e",".","h","t","m","l">>
\* Config.BASE_URL (settings.py line 13)
BASE_URL == <<"h","t","t","p","s",":","/","/","w","w","w",".","b","a","s","k","e","t","b","a","l","l","-","r","e","f","e","r","e","n","c","e",".","c","o","m">>

IsDigit(c) == c \in Digits
AllDigits(text) == \A i \in 1..Len(text) : IsDigit(text[i])

\* re.search(r"(\d{4})(?=\.html?$)", season_url): the positions where four
\* digits are followed by ".htm" or ".html" and the end of the string.
YearMatches(url) ==
    {i \in 1..Len(url) :
        /\ i + 3 <= Len(url)
        /\ AllDigits(SubSeq(url, i, i + 3))
        /\ SubSeq(url, i + 4, Len(url)) \in {DotHtm, DotHtml}}

\* _season_year_from_url (lines 177-184); no year is the empty sequence
season_year_from_url(season_url) ==
    IF season_url = NoURL \/ YearMatches(season_url) = {} THEN <<>>
    ELSE LET i == CHOOSE i \in YearMatches(season_url) : \A j \in YearMatches(season_url) : i <= j
         IN  SubSeq(season_url, i, i + 3)

RECURSIVE rstrip(_, _)
\* text.rstrip(c)
rstrip(text, c) ==
    IF text # <<>> /\ text[Len(text)] = c THEN rstrip(SubSeq(text, 1, Len(text) - 1), c) ELSE text

\* text.endswith(suffix)
endswith(text, suffix) ==
    Len(text) >= Len(suffix) /\ SubSeq(text, Len(text) - Len(suffix) + 1, Len(text)) = suffix

\* text.rsplit(sep, 1)[0]
BeforeLast(text, sep) ==
    LET at == {i \in 1..Len(text) : text[i] = sep}
    IN  IF at = {} THEN text
        ELSE SubSeq(text, 1, (CHOOSE i \in at : \A j \in at : j <= i) - 1)

\* normalized_league_url (lines 190-192)
NormalizedLeagueUrlUncut(league_url) == rstrip(league_url, "/")

NormalizedLeagueUrl(league_url) ==
    LET stripped == rstrip(league_url, "/")
    IN  IF endswith(stripped, DotHtml) THEN BeforeLast(stripped, "/") ELSE stripped

\* _build_schedule_url (lines 186-193)
build_schedule_url(season_url, league_url) ==
    LET year == season_year_from_url(season_url)
    IN  IF year = <<>> \/ league_url = NoURL THEN NoURL
        ELSE NormalizedLeagueUrl(league_url) \o <<"/">> \o year \o ScheduleSuffix

\* The season and league URLs _build_schedule_url is called with.
UrlStem == <<"/","i","/","a">>
SeasonURLs ==
    {NoURL} \cup
    {UrlStem \o token \o suffix :
        token \in {<<"2","0","2","5">>, <<"0","2","5">>, <<"a","0","2","5">>,
                   <<"1","2","0","2","5">>, <<>>},
        suffix \in {DotHtml, DotHtm, <<".","p","h","p">>, DotHtml \o <<"/">>, <<>>}}
LeagueURLs ==
    {NoURL} \cup
    {UrlStem \o ending :
        ending \in {<<>>, <<"/">>, <<"/","/">>, DotHtml, <<"/","a">> \o DotHtml, DotHtm,
                    DotHtml \o <<"/">>}}

InitUrl ==
    /\ url_season \in SeasonURLs
    /\ url_league \in LeagueURLs
    /\ url_called = FALSE
    /\ url_out = NoURL

ParkedUrl ==
    /\ url_season = NoURL
    /\ url_league = NoURL
    /\ url_called = FALSE
    /\ url_out = NoURL

CallBuildScheduleUrl ==
    /\ ~url_called
    /\ url_called' = TRUE
    /\ url_out' = build_schedule_url(url_season, url_league)
    /\ UNCHANGED <<url_season, url_league, nonUrlVars>>

NextUrl == CallBuildScheduleUrl

\* A body row of the units table: the Season and League cells and the links
\* of the two cells (None when the cell has no link).
TopRow(season, league, season_href, league_href) ==
    [Season |-> season, League |-> league, season_href |-> season_href, league_href |-> league_href]
SeasonHref == <<"/","i","n","t","e","r","n","a","t","i","o","n","a","l","/","e","u","r","o","l","e","a","g","u","e","/","2","0","2","5",".","h","t","m","l">>
LeagueHref == <<"/","i","n","t","e","r","n","a","t","i","o","n","a","l","/","e","u","r","o","l","e","a","g","u","e","/">>
TopRows ==
    {TopRow(season, league, hrefs[1], hrefs[2]) :
        season \in {"2024-25", "   ", NaN},
        league \in {"EuroLeague", "", NaN},
        hrefs \in {<<SeasonHref, LeagueHref>>, <<NoURL, NoURL>>}}

\* df.replace(r'^\s*$', pd.NA, regex=True) and dropna (lines 294-295): the
\* cells that count as missing
IsMissing(cell) == cell = NaN \/ cell \in {"", " ", "   "}

\* urljoin(self.base_url, href) if href else None, for a href that is an
\* absolute path (lines 289, 291)
urljoin_path(base, href) == IF href = NoURL THEN NoURL ELSE base \o href

\* parse_data (lines 268-303) on a page whose first table has a Season and a
\* League column.  With no row left after dropna, df.apply(..., axis=1)
\* (line 298) returns a copy of the empty four-column frame instead of a
\* Series, and assigning that frame to the one column ScheduleURL raises
\* ValueError.
parse_data(rows, with_links) ==
    LET Kept(row) == ~IsMissing(row.Season) /\ ~IsMissing(row.League)
        kept == SelectSeq(rows, Kept)
    IN  IF kept = <<>> THEN Raised("ValueError") ELSE
        ReturnedRows([i \in 1..Len(kept) |->
            LET season_url == IF with_links THEN urljoin_path(BASE_URL, kept[i].season_href) ELSE NoURL
                league_url == IF with_links THEN urljoin_path(BASE_URL, kept[i].league_href) ELSE NoURL
            IN  [Season |-> kept[i].Season,
                 SeasonURL |-> season_url,
                 League |-> kept[i].League,
                 LeagueURL |-> league_url,
                 ScheduleURL |-> build_schedule_url(season_url, league_url)]])

InitUnits ==
    /\ top_table \in SeqsUpTo(TopRows, MaxTopRows)
    /\ top_links \in BOOLEAN
    /\ units_called = FALSE
    /\ units_out = ReturnedRows(<<>>)

ParkedUnits ==
    /\ top_table = <<>>
    /\ top_links = FALSE
    /\ units_called = FALSE
    /\ units_out = ReturnedRows(<<>>)

CallParseData ==
    /\ ~units_called
    /\ units_called' = TRUE
    /\ units_out' = parse_data(top_table, top_links)
    /\ UNCHANGED <<top_table, top_links, nonUnitsVars>>

NextUnits == CallParseData

(***************************************************************************)
(* storage/local_store.py and storage/cloud_store.py: _save.  The two      *)
(* classes hold the same code, one on a file and one on a blob.  A stored  *)
(* file is the frame written to it, one line per row; NoFrame is a file    *)
(* that does not exist.                                                    *)
(***************************************************************************)
EntityKinds == {"seasons", "schedules", "boxscores"}

\* The datasets the save method of an entity kind is called with.
FramesOf(kind) ==
    CASE kind = "seasons" -> SeasonFrames
      [] kind = "schedules" -> ScheduleFrames
      [] kind = "boxscores" -> BoxscoreFrames

\* _load (local_store.py lines 64-74): None when the file does not exist
FileLoad(file) == file

\* pd.concat([existing, df], ignore_index=True)
ConcatFrames(existing, df) == Frame(existing.cols, existing.rows \o df.rows)

\* The record kept of a _save call.
FileSaveRecord(kind, if_exists, given, before, returned) ==
    [kind |-> kind, if_exists |-> if_exists, given |-> given, before |-> before,
     returned |-> returned]
NoFileSave == FileSaveRecord("none", "none", NoFrame, NoFrame, 0)

InitFiles ==
    /\ files = [kind \in EntityKinds |-> NoFrame]
    /\ file_saves = 0
    /\ file_last = NoFileSave

ParkedFiles ==
    /\ files = [kind \in EntityKinds |-> NoFrame]
    /\ file_saves = 0
    /\ file_last = NoFileSave

\* _save(df, filename, if_exists) (local_store.py lines 42-62, cloud_store.py
\* lines 63-88), reached through save_seasons, save_schedules, save_boxscores
FileSave(kind, df, if_exists) ==
    /\ file_saves < MaxFileSaves
    /\ file_saves' = file_saves + 1
    /\ UNCHANGED nonFilesVars
    /\ IF IsEmptyFrame(df)
       THEN /\ file_last' = FileSaveRecord(kind, if_exists, df, files[kind], 0)
            /\ UNCHANGED files
       ELSE LET existing == FileLoad(files[kind])
                written == IF if_exists = "append" /\ files[kind] # NoFrame /\ existing # NoFrame
                           THEN ConcatFrames(existing, df)
                           ELSE df
            IN  /\ files' = [files EXCEPT ![kind] = written]
                /\ file_last' = FileSaveRecord(kind, if_exists, df, files[kind], Len(written.rows))

NextFiles ==
    \E kind \in EntityKinds :
        \E df \in FramesOf(kind) \cup {NoFrame}, if_exists \in IfExistsModes : FileSave(kind, df, if_exists)

(***************************************************************************)
(* scraping/basketball_reference_scraper.py: _parse_boxscore_tables.  A    *)
(* table element is its position in the page; it is described by the set   *)
(* of containers (div ids) it lies in.                                     *)
(***************************************************************************)
VisitorDiv == "div_box-score-visitor"
HomeDiv == "div_box-score-home"
CombinedDiv == "div_box-score"

\* Where a table element can lie: outside the three containers, in one of
\* them, or in a role-named container nested in the combined one.
Placements ==
    {{}, {VisitorDiv}, {HomeDiv}, {CombinedDiv}, {VisitorDiv, CombinedDiv}, {HomeDiv, CombinedDiv}}

NoElement == 0
NoElements == [Visitors |-> NoElement, Home |-> NoElement]

\* div.find_all('table'): the page's tables that lie in the container, in page order
TablesIn(page, div) == SelectSeq([i \in 1..Len(page) |-> i], LAMBDA i : div \in page[i])

\* soup.find('div', id=div_id).find('table') (lines 235-240): the first table of
\* the container, if the container is there and holds a table
FirstTableIn(page, div) ==
    IF TablesIn(page, div) = <<>> THEN NoElement ELSE TablesIn(page, div)[1]

\* Lines 234-240: the role-named containers
RoleNamed(page) ==
    [Visitors |-> FirstTableIn(page, VisitorDiv), Home |-> FirstTableIn(page, HomeDiv)]

\* Lines 242-247: zip(['Visitors', 'Home'], combined_tables)
Combined(page, found) ==
    LET combined_tables == TablesIn(page, CombinedDiv)
    IN  [Visitors |-> IF found.Visitors = NoElement /\ Len(combined_tables) >= 1
                      THEN combined_tables[1] ELSE found.Visitors,
         Home |-> IF found.Home = NoElement /\ Len(combined_tables) >= 2
                  THEN combined_tables[2] ELSE found.Home]

RECURSIVE Fallback(_, _, _)
\* Lines 249-255: for table in soup.find_all('table'), from table i on
Fallback(page, found, i) ==
    IF i > Len(page) THEN found
    ELSE IF found.Visitors = NoElement THEN Fallback(page, [found EXCEPT !.Visitors = i], i + 1)
    ELSE IF found.Home = NoElement THEN Fallback(page, [found EXCEPT !.Home = i], i + 1)
    ELSE found

\* len(table_elements)
Assigned(found) == Cardinality({role \in {"Visitors", "Home"} : found[role] # NoElement})

\* table_elements of _parse_boxscore_tables (lines 226-255)
parse_boxscore_table_elements(page) ==
    LET found == Combined(page, RoleNamed(page))
    IN  IF Assigned(found) < 2 THEN Fallback(page, found, 1) ELSE found

InitTables ==
    /\ page_tables \in SeqsUpTo(Placements, MaxPageTables)
    /\ tables_called = FALSE
    /\ table_elements = NoElements

ParkedTables ==
    /\ page_tables = <<>>
    /\ tables_called = FALSE
    /\ table_elements = NoElements

CallParseBoxscoreTables ==
    /\ ~tables_called
    /\ tables_called' = TRUE
    /\ table_elements' = parse_boxscore_table_elements(page_tables)
    /\ UNCHANGED <<page_tables, nonTablesVars>>

NextTables == CallParseBoxscoreTables

(***************************************************************************)
(* storage/database_store.py: the column order of the dataset a save       *)
(* operation writes                                                        *)
(***************************************************************************)
\* The identifier columns of an entity kind: primary key, then foreign key.
IdColumns(kind) ==
    CASE kind = "seasons" -> <<"SeasonID">>
      [] kind = "schedules" -> <<"GameID", "SeasonID">>
      [] kind = "boxscores" -> <<"BoxscoreID", "GameID">>

\* The other columns of an entity kind, in the order of all_columns
\* (schema.py lines 97-98, 163-169, 273-304).
DataColumns(kind) ==
    CASE kind = "seasons" -> SeasonDataColumns
      [] kind = "schedules" -> ScheduleDataColumns
      [] kind = "boxscores" -> BoxscoreDataColumns

Reverse(seq) == [i \in 1..Len(seq) |-> seq[Len(seq) + 1 - i]]

\* Column orders a caller may pass: the schema's, its reverse, the schema's
\* with the first column moved to the end, and with the first two swapped.
ColumnOrders(cols) ==
    {cols, Reverse(cols), Tail(cols) \o <<Head(cols)>>,
     <<cols[2], cols[1]>> \o SubSeq(cols, 3, Len(cols))}

\* A row of the kind with a value for every column, identifiers included.
FullRow(kind) ==
    LET ids == [c \in {"SeasonID", "GameID", "BoxscoreID"} |-> <<"i", "d">>]
    IN  CASE kind = "seasons" -> ids @@ UnitEuro
          [] kind = "schedules" -> ids @@ GameEuro
          [] kind = "boxscores" -> ids @@ DetailRows(GameEuro)[1]

\* The datasets of a kind: every column order above, with any of the
\* identifier columns already present, in front of or behind the others.
OrderedFrames(kind) ==
    {Frame(cols, <<[c \in {cols[i] : i \in 1..Len(cols)} |-> FullRow(kind)[c]]>>) :
        cols \in UNION {
            {SelectSeq(IdColumns(kind), LAMBDA c : c \in present) \o data,
             data \o Reverse(SelectSeq(IdColumns(kind), LAMBDA c : c \in present))} :
                present \in SUBSET {IdColumns(kind)[i] : i \in 1..Len(IdColumns(kind))},
                data \in ColumnOrders(DataColumns(kind))}}

\* The dataset save_seasons / save_schedules / save_boxscores hands to
\* _write_dataframe (lines 53-67, 74-104, 111-140)
ToWrite(kind, df) ==
    CASE kind = "seasons" -> SeasonsToWrite(df)
      [] kind = "schedules" -> SchedulesToWrite(df)
      [] kind = "boxscores" -> BoxscoresToWrite(df)

InitOrder ==
    /\ order_kind \in EntityKinds
    /\ order_df \in OrderedFrames(order_kind)
    /\ order_called = FALSE
    /\ order_out = <<>>

ParkedOrder ==
    /\ order_kind = "seasons"
    /\ order_df = NoFrame
    /\ order_called = FALSE
    /\ order_out = <<>>

CallSave ==
    /\ ~order_called
    /\ order_called' = TRUE
    /\ order_out' = ToWrite(order_kind, order_df).cols
    /\ UNCHANGED <<order_kind, order_df, nonOrderVars>>

NextOrder == CallSave

(***************************************************************************)
(* storage/database_store.py: _write_dataframe when a chunk write fails    *)
(***************************************************************************)
\* The table left behind when a chunk write has failed.  Each to_sql call
\* is its own transaction: the failed chunk is rolled back, the chunks
\* written before it are committed.
AfterFailureAllRolledBack(original, current) == original

AfterFailure(original, current) == current

RECURSIVE WriteChunksUntil(_, _, _, _, _, _, _)
\* The loop of _write_dataframe (lines 165-183) from offset start on, chunk
\* number k being the next to write; the to_sql call of chunk fail_at raises
\* and nothing in the loop catches it.
WriteChunksUntil(original, table, df, start, if_exists, size, fail_at) ==
    IF start >= Len(df.rows)
    THEN [table |-> table, modes |-> <<>>, written |-> 0, exc |-> None]
    ELSE LET stop == IF start + size < Len(df.rows) THEN start + size ELSE Len(df.rows)
             chunk == Frame(df.cols, SubSeq(df.rows, start + 1, stop))
             mode == ChunkMode(start, if_exists)
             k == (start \div size) + 1
         IN  IF k = fail_at
             THEN [table |-> AfterFailure(original, table), modes |-> <<mode>>, written |-> 0,
                   exc |-> "SQLAlchemyError"]
             ELSE LET rest == WriteChunksUntil(original, to_sql(table, chunk, mode), df,
                                               start + size, if_exists, size, fail_at)
                  IN  [table |-> rest.table,
                       modes |-> <<mode>> \o rest.modes,
                       written |-> Len(chunk.rows) + rest.written,
                       exc |-> rest.exc]

\* range(0, total_rows, self.chunk_size): the number of chunks
ChunkCount(df, size) == (Len(df.rows) + size - 1) \div size

\* The tables a call may find, and the calls: a failing first chunk is left
\* out (what a failed replace leaves depends on the database).
ChunkTables ==
    {NoFrame} \cup {SeasonsToWrite(Frame(SeasonDataColumns, rows)) : rows \in {<<UnitAcb>>, <<UnitSerieA, UnitAcb>>}}
ChunkCalls ==
    [df : {SeasonsToWrite(df) : df \in SeasonFrames \ {Frame(SeasonDataColumns, <<>>)}},
     if_exists : IfExistsModes,
     size : 1..MaxChunk,
     fail_at : {0} \cup 2..MaxFailAt]

NoChunkOut == [exc |-> None, modes |-> <<>>, written |-> 0]

InitChunks ==
    /\ ch_table \in ChunkTables
    /\ ch_call \in ChunkCalls
    /\ ch_called = FALSE
    /\ ch_before = ch_table
    /\ ch_out = NoChunkOut

ParkedChunks ==
    /\ ch_table = NoFrame
    /\ ch_call = [df |-> NoFrame, if_exists |-> "replace", size |-> 1, fail_at |-> 0]
    /\ ch_called = FALSE
    /\ ch_before = NoFrame
    /\ ch_out = NoChunkOut

\* _write_dataframe(df, table_name, if_exists) (lines 155-190)
CallWriteChunks ==
    /\ ~ch_called
    /\ ch_called' = TRUE
    /\ LET out == WriteChunksUntil(ch_table, ch_table, ch_call.df, 0, ch_call.if_exists,
                                   ch_call.size, ch_call.fail_at)
       IN  /\ ch_table' = out.table
           /\ ch_out' = [exc |-> out.exc, modes |-> out.modes, written |-> out.written]
    /\ UNCHANGED <<ch_call, ch_before, nonChunksVars>>

NextChunks == CallWriteChunks

(***************************************************************************)
(* Specifications                                                          *)
(***************************************************************************)
InitSpecFetch == InitFetch /\ ParkedBox /\ ParkedIds /\ ParkedDb /\ ParkedSched /\ ParkedListing /\ ParkedMain
    /\ ParkedUnits /\ ParkedUrl /\ ParkedFiles /\ ParkedTables /\ ParkedOrder /\ ParkedChunks
SpecFetch == InitSpecFetch /\ [][NextFetch]_vars

\* fetch_data is one thread of control: a step that can be taken is taken.
SpecFetchLive == InitSpecFetch /\ [][NextFetch]_vars /\ WF_vars(NextFetch)

InitSpecBox == ParkedFetch /\ InitBox /\ ParkedIds /\ ParkedDb /\ ParkedSched /\ ParkedListing /\ ParkedMain
    /\ ParkedUnits /\ ParkedUrl /\ ParkedFiles /\ ParkedTables /\ ParkedOrder /\ ParkedChunks
SpecBox == InitSpecBox /\ [][NextBox]_vars

InitSpecClean == ParkedFetch /\ ParkedBox /\ InitClean /\ ParkedDb /\ ParkedSched /\ ParkedListing /\ ParkedMain
    /\ ParkedUnits /\ ParkedUrl /\ ParkedFiles /\ ParkedTables /\ ParkedOrder /\ ParkedChunks
SpecClean == InitSpecClean /\ [][NextClean]_vars

InitSpecUnitId == ParkedFetch /\ ParkedBox /\ ParkedIds /\ ParkedDb /\ ParkedSched /\ ParkedListing /\ ParkedMain
    /\ ParkedUnits /\ ParkedUrl /\ ParkedFiles /\ ParkedTables /\ ParkedOrder /\ ParkedChunks
SpecUnitId == InitSpecUnitId /\ [][NextUnitId]_vars

InitSpecDb == ParkedFetch /\ ParkedBox /\ ParkedIds /\ InitDb /\ ParkedSched /\ ParkedListing /\ ParkedMain
    /\ ParkedUnits /\ ParkedUrl /\ ParkedFiles /\ ParkedTables /\ ParkedOrder /\ ParkedChunks
SpecDb == InitSpecDb /\ [][NextDb]_vars

InitSpecSched == ParkedFetch /\ ParkedBox /\ ParkedIds /\ ParkedDb /\ InitSched /\ ParkedListing /\ ParkedMain
    /\ ParkedUnits /\ ParkedUrl /\ ParkedFiles /\ ParkedTables /\ ParkedOrder /\ ParkedChunks
SpecSched == InitSpecSched /\ [][NextSched]_vars

InitSpecListing == ParkedFetch /\ ParkedBox /\ ParkedIds /\ ParkedDb /\ ParkedSched /\ InitListing /\ ParkedMain
    /\ ParkedUnits /\ ParkedUrl /\ ParkedFiles /\ ParkedTables /\ ParkedOrder /\ ParkedChunks
SpecListing == InitSpecListing /\ [][NextListing]_vars

InitSpecMain == ParkedFetch /\ ParkedBox /\ ParkedIds /\ ParkedDb /\ ParkedSched /\ ParkedListing /\ InitMain
    /\ ParkedUnits /\ ParkedUrl /\ ParkedFiles /\ ParkedTables /\ ParkedOrder /\ ParkedChunks
SpecMain == InitSpecMain /\ [][NextMain]_vars

InitSpecUnits == ParkedFetch /\ ParkedBox /\ ParkedIds /\ ParkedDb /\ ParkedSched /\ ParkedListing /\ ParkedMain
    /\ InitUnits /\ ParkedUrl /\ ParkedFiles /\ ParkedTables /\ ParkedOrder /\ ParkedChunks
SpecUnits == InitSpecUnits /\ [][NextUnits]_vars

InitSpecUrl == ParkedFetch /\ ParkedBox /\ ParkedIds /\ ParkedDb /\ ParkedSched /\ ParkedListing /\ ParkedMain
    /\ ParkedUnits /\ InitUrl /\ ParkedFiles /\ ParkedTables /\ ParkedOrder /\ ParkedChunks
SpecUrl == InitSpecUrl /\ [][NextUrl]_vars

InitSpecFiles == ParkedFetch /\ ParkedBox /\ ParkedIds /\ ParkedDb /\ ParkedSched /\ ParkedListing /\ ParkedMain /\ ParkedUrl /\ ParkedUnits /\ InitFiles /\ ParkedTables /\ ParkedOrder /\ ParkedChunks
SpecFiles == InitSpecFiles /\ [][NextFiles]_vars

InitSpecTables == ParkedFetch /\ ParkedBox /\ ParkedIds /\ ParkedDb /\ ParkedSched /\ ParkedListing /\ ParkedMain /\ ParkedUrl /\ ParkedUnits /\ ParkedFiles /\ InitTables /\ ParkedOrder /\ ParkedChunks
SpecTables == InitSpecTables /\ [][NextTables]_vars

InitSpecOrder == ParkedFetch /\ ParkedBox /\ ParkedIds /\ ParkedDb /\ ParkedSched /\ ParkedListing /\ ParkedMain /\ ParkedUrl /\ ParkedUnits /\ ParkedFiles /\ ParkedTables /\ InitOrder /\ ParkedChunks
SpecOrder == InitSpecOrder /\ [][NextOrder]_vars

InitSpecChunks == ParkedFetch /\ ParkedBox /\ ParkedIds /\ ParkedDb /\ ParkedSched /\ ParkedListing /\ ParkedMain /\ ParkedUrl /\ ParkedUnits /\ ParkedFiles /\ ParkedTables /\ ParkedOrder /\ InitChunks
SpecChunks == InitSpecChunks /\ [][NextChunks]_vars

\* Number of session.get calls made by this fetch_data call.
get_calls == Cardinality({i \in 1..Len(timeline) : timeline[i].ev = "get"})

IsRetryable(resp) == resp.kind = "http" /\ resp.status_code \in RETRY_STATUS_CODES
IsSuccess(resp) == resp.kind = "http" /\ resp.status_code = 200
IsNonRetryable(resp) ==
    resp.kind = "http" /\ resp.status_code # 200 /\ resp.status_code \notin RETRY_STATUS_CODES

(***************************************************************************)
(* Claims about fetch_data (checked under SpecFetch)                       *)
(***************************************************************************)
AllRetryable(n) == \A i \in 1..n : IsRetryable(responses[i])

\* C1: for every N < max_retries, N consecutive responses with a status in
\* RETRY_STATUS_CODES keep the call going (N calls to session.get made, the
\* next one still to come), and a 200 response after them makes fetch_data
\* return that response's text after exactly N+1 calls to session.get.
C1_RetryThenSuccess ==
    \A n \in 0..(max_retries - 1) :
        /\ (fetch_state # "parked" /\ Len(responses) = n /\ AllRetryable(n))
              => (fetch_state = "running" /\ get_calls = n)
        /\ (Len(responses) > n /\ AllRetryable(n) /\ IsSuccess(responses[n + 1]))
              => /\ fetch_state = "returned"
                 /\ fetch_result = Returned(responses[n + 1].text)
                 /\ get_calls = n + 1
                 /\ Len(responses) = n + 1

\* Two retryable responses (a 429 among them) and then a 200: returned at the third call.
C1_Witness ==
    /\ fetch_state = "returned"
    /\ Len(responses) = 3
    /\ responses[1].status_code = 429
    /\ IsRetryable(responses[2])
    /\ fetch_result = Returned(responses[3].text)

\* C2: with max_retries = N >= 1 and only retryable-status responses, the call
\* never returns, never makes more than N calls to session.get, cannot stop
\* before the N-th call (it is running until then and the raise is enabled
\* right after it), and the FetchError is raised after exactly N calls.
C2_ExhaustedAfterMaxRetries ==
    (max_retries >= 1 /\ fetch_state # "parked" /\ AllRetryable(Len(responses))) =>
        /\ get_calls <= max_retries
        /\ get_calls = Len(responses)
        /\ fetch_state # "returned"
        /\ (fetch_state = "running" /\ get_calls < max_retries)
              => (~ENABLED FetchExhausted /\ ENABLED (\E resp \in Responses : FetchAttempt(resp)))
        /\ (fetch_state = "running" /\ get_calls = max_retries)
              => (ENABLED FetchExhausted /\ ~ENABLED (\E resp \in Responses : FetchAttempt(resp)))
        /\ fetch_state = "raised"
              => (get_calls = max_retries /\ fetch_result.kind = "FetchError"
                    /\ fetch_result.text = "after max_retries attempts")

\* Three retryable responses with max_retries = 3: FetchError after the third call.
C2_Witness ==
    /\ max_retries = 3
    /\ fetch_state = "raised"
    /\ Len(responses) = 3
    /\ AllRetryable(3)

\* C3: a response whose status is neither 200 nor retryable is the last one of
\* the call, at whichever attempt it arrives: the call has raised
\* FetchError("HTTP <status>") and made exactly as many session.get calls as
\* responses were received up to it (one, when it is the first response).
C3_NonRetryableEndsCall ==
    \A i \in 1..Len(responses) :
        IsNonRetryable(responses[i]) =>
            /\ i = Len(responses)
            /\ fetch_state = "raised"
            /\ fetch_result = FetchError("HTTP", NoException)
            /\ get_calls = i

\* A 404 arriving at the second attempt, after a retryable 503.
C3_Witness ==
    /\ fetch_state = "raised"
    /\ Len(responses) = 2
    /\ responses[1].status_code = 503
    /\ responses[2].status_code = 404
    /\ get_calls = 2

\* C23: every call to session.get made by fetch_data, the first attempt
\* included, comes right after a pacing wait of request_delay; a call
\* opens with that wait, so neither within a call nor from one call to the
\* next are two requests issued without a pacing wait between them.
C23_PacedBeforeEveryGet ==
    /\ \A i \in 1..Len(timeline) :
            timeline[i].ev = "get" =>
                (i > 1 /\ timeline[i - 1] = Sleep(REQUEST_DELAY_SECONDS, "pacing"))
    /\ (timeline # <<>> => timeline[1] = Sleep(REQUEST_DELAY_SECONDS, "pacing"))

\* Three requests of one call, the later ones after a backoff wait.
C23_Witness ==
    /\ get_calls = 3
    /\ timeline[3].why = "backoff"
    /\ timeline[4] = Sleep(REQUEST_DELAY_SECONDS, "pacing")
    /\ timeline[5].ev = "get"

\* C24: when fetch_data fails after exhausting max_retries attempts, the
\* cause chained to the FetchError is the error of the last attempt: it is
\* not absent and not the error of an earlier attempt.
C24_CauseIsLastError ==
    (fetch_state = "raised" /\ max_retries >= 1 /\ fetch_result.text = "after max_retries attempts") =>
        /\ fetch_result.cause # NoException
        /\ fetch_result.cause.attempt = max_retries

\* C25: fetch_data fails at once as non-retryable only for statuses outside
\* 200..299 and outside RETRY_STATUS_CODES; every response with a status
\* in 200..299 ends the call with its text returned.
C25_Every2xxIsSuccess ==
    \A i \in 1..Len(responses) :
        /\ (responses[i].kind = "http" /\ responses[i].status_code \in 200..299) =>
                /\ i = Len(responses)
                /\ fetch_state = "returned"
                /\ fetch_result = Returned(responses[i].text)
        /\ (i = Len(responses) /\ fetch_state = "raised" /\ fetch_result.text = "HTTP") =>
                /\ responses[i].kind = "http"
                /\ responses[i].status_code \notin 200..299
                /\ responses[i].status_code \notin RETRY_STATUS_CODES

\* The call is over: it returned text or raised FetchError.
FetchDone ==
    \/ fetch_state = "returned" /\ fetch_result.kind = "text"
    \/ fetch_state = "raised" /\ fetch_result.kind = "FetchError"

\* C28: whatever responses and transport errors arrive, in any mix and
\* order, one fetch_data call issues at most max_retries calls to
\* session.get and then ends by returning text or raising FetchError; with
\* max_retries <= 0 it issues no request and raises FetchError.
C28_BoundedThenDone ==
    /\ [](fetch_state # "parked" =>
            /\ get_calls <= (IF max_retries > 0 THEN max_retries ELSE 0)
            /\ get_calls = Len(responses)
            /\ (max_retries <= 0 /\ fetch_state # "running") =>
                    (fetch_state = "raised" /\ fetch_result.kind = "FetchError"))
    /\ <>FetchDone

\* A transport error, a retryable status and another transport error with
\* max_retries = 3: FetchError after the third request.
C28_Witness ==
    /\ max_retries = 3
    /\ Len(responses) = 3
    /\ responses[1].kind = "exc"
    /\ IsRetryable(responses[2])
    /\ responses[3].kind = "exc"
    /\ fetch_state = "raised"
    /\ get_calls = 3

\* No request at all with max_retries <= 0.
C28_WitnessNoAttempt ==
    /\ max_retries = -1
    /\ fetch_state = "raised"
    /\ timeline = <<>>

(***************************************************************************)
(* Claims about scrape_boxscore_tables (checked under SpecBox)             *)
(***************************************************************************)
\* The positions in `calls` of the fetch_data calls for url, and of the
\* save_boxscores calls made while row i was processed.
FetchCallsOf(url) ==
    {k \in 1..Len(calls) : calls[k].op = "fetch_data" /\ calls[k].url = url}
SaveCallsOf(i) ==
    {k \in 1..Len(calls) : calls[k].op = "save_boxscores" /\ calls[k].row = i}
IsSave(c) == c.op = "save_boxscores"
Saves == SelectSeq(calls, IsSave)
UrlsOfSchedule == {schedule_df[i].DateURL : i \in 1..Len(schedule_df)} \ {None}

\* C4 (as stated): when the run has returned, fetch_data was called exactly
\* once for every distinct DateURL of the schedule rows, whatever the fetches
\* gave (success, page without tables, or a FetchError).
C4_FetchedOncePerUrl ==
    box_state = "returned" =>
        \A url \in UrlsOfSchedule : Cardinality(FetchCallsOf(url)) = 1

\* Row i went through the loop and yielded at least one detail table: it has
\* a DateURL, its page was not fetched in vain while the row was processed,
\* and the page's table_map has a table for a role the row names a team for.
Produced(i) ==
    /\ i <= row_idx
    /\ schedule_df[i].DateURL # None
    /\ ~\E k \in 1..Len(calls) :
            calls[k].op = "fetch_data" /\ calls[k].row = i /\ ~calls[k].ok
    /\ RowTables(schedule_df[i], html_cache[schedule_df[i].DateURL].table_map) # <<>>

\* C5: with a store, save_boxscores is called exactly once for every row that
\* yielded a detail table (with that row's combined rows) and never for another
\* row; the calls of the run are in row order with a row's fetch before its
\* save, so each flush precedes the fetch of any later row; the first flush of
\* the run has if_exists = "replace" and every later one "append".
C5_FlushPerRow ==
    (store_given /\ box_state # "parked") =>
        /\ \A i \in 1..Len(schedule_df) :
              /\ Cardinality(SaveCallsOf(i)) = IF Produced(i) THEN 1 ELSE 0
              /\ \A k \in SaveCallsOf(i) :
                    calls[k].df = Concat(RowTables(schedule_df[i],
                                     html_cache[schedule_df[i].DateURL].table_map))
        /\ \A a, b \in 1..Len(calls) :
              a < b => /\ calls[a].row <= calls[b].row
                       /\ calls[a].row = calls[b].row
                             => (calls[a].op = "fetch_data" /\ calls[b].op = "save_boxscores")
        /\ \A k \in 1..Len(Saves) :
              Saves[k].if_exists = IF k = 1 THEN "replace" ELSE "append"
        /\ first_chunk <=> Saves = <<>>

\* Two rows flushed, the second row's page fetched between the two flushes.
C5_Witness ==
    /\ store_given
    /\ Len(Saves) = 2
    /\ \E k \in 1..(Len(calls) - 2) :
          /\ calls[k].op = "save_boxscores" /\ calls[k].if_exists = "replace"
          /\ calls[k + 1].op = "fetch_data"
          /\ calls[k + 2].op = "save_boxscores" /\ calls[k + 2].if_exists = "append"

\* The rows passed to save_boxscores so far, in the order of the calls.
Flushed == Concat([k \in 1..Len(SelectSeq(calls, IsSave)) |-> SelectSeq(calls, IsSave)[k].df])

\* C29: when a store is supplied and every save_boxscores call succeeds, the
\* rows passed to save_boxscores over the run are exactly the rows of the
\* dataset the function returns, in the same order: each returned row was
\* flushed once, and nothing else was flushed.
C29_FlushedIsReturned ==
    /\ (box_state = "running" /\ store_given) => Flushed = Concat(results)
    /\ (box_state = "returned" /\ store_given) => Flushed = box_return

\* Two flushes, and both their rows returned.
C29_Witness ==
    /\ box_state = "returned"
    /\ store_given
    /\ Len(SelectSeq(calls, IsSave)) >= 2
    /\ Len(box_return) >= 3
    /\ Flushed = box_return

(***************************************************************************)
(* Claims about the identifier functions (SpecUnitId, SpecClean)           *)
(***************************************************************************)
\* C9: two SeasonColumns.generate_id calls with identical inputs give
\* identical identifiers, and two calls whose normalised input pairs
\* (clean_for_id(season), clean_for_id(league)) differ give different ones.
C9_UnitIdInjective ==
    \A a, b \in 1..Len(id_calls) :
        LET x == id_calls[a]
            y == id_calls[b]
        IN  /\ (x.season = y.season /\ x.league = y.league) => x.SeasonID = y.SeasonID
            /\ (<<clean_for_id(x.season, 0), clean_for_id(x.league, 0)>>
                    # <<clean_for_id(y.season, 0), clean_for_id(y.league, 0)>>)
                  => x.SeasonID # y.SeasonID

\* What one character of the input leaves in the identifier, read off the
\* docstring of clean_for_id: a letter or digit stays, an accented letter
\* leaves its base letter, space and hyphen become "_", "_" stays, anything
\* else leaves nothing.
CharImage(c) ==
    CASE c \in Letters \cup Digits -> <<c>>
      [] c \in {" ", "-", "_"} -> <<"_">>
      [] c = "U+00FC" -> <<"u">>
      [] c = "U+00E9" -> <<"e">>
      [] OTHER -> <<>>

RECURSIVE TextImage(_)
TextImage(text) == IF text = <<>> THEN <<>> ELSE CharImage(Head(text)) \o TextImage(Tail(text))

\* C10: clean_for_id never returns the empty string, for every text and every
\* max_length >= 0: when the text is empty or nothing of it is left after
\* cleaning, the result is "Unknown"; otherwise it is the cleaned text, cut to
\* max_length characters when max_length > 0, which is not empty.
C10_NeverEmpty ==
    id_called =>
        LET image == TextImage(id_text)
            expected == IF id_max_length > 0 /\ Len(image) > id_max_length
                        THEN SubSeq(image, 1, id_max_length) ELSE image
        IN  /\ id_out # <<>>
            /\ (id_text = <<>> \/ image = <<>>) => id_out = Unknown
            /\ image # <<>> => (id_out = expected /\ expected # <<>>)

\* A text of punctuation and an undecomposable non-ASCII character, cut to
\* one character: nothing is left and the sentinel is returned.
C10_Witness ==
    /\ id_called
    /\ id_text = <<".", "U+00DF">>
    /\ id_max_length = 1
    /\ id_out = Unknown

(***************************************************************************)
(* Claims about DatabaseStore                                              *)
(***************************************************************************)
TableOf(op) ==
    CASE op = "save_seasons" -> season_table
      [] op = "save_schedules" -> schedule_table
      [] op = "save_boxscores" -> boxscore_table
      [] op = "_write_dataframe" -> season_table
      [] OTHER -> NoFrame

LargeReplace ==
    /\ db_last.op # "none"
    /\ db_last.if_exists = "replace"
    /\ Len(db_last.frame.rows) > chunk_size

\* C6: when _write_dataframe is called with if_exists = "replace" and a dataset
\* of n > chunk_size rows, the first chunk is written with mode "replace" and
\* every later chunk with mode "append", and afterwards the table holds exactly
\* the n rows of the dataset, whatever it held before.
C6_ChunkedReplace ==
    LargeReplace =>
        /\ Len(db_last.modes) >= 2
        /\ db_last.modes[1] = "replace"
        /\ \A i \in 2..Len(db_last.modes) : db_last.modes[i] = "append"
        /\ TableOf(db_last.op).rows = db_last.frame.rows
        /\ db_last.written = Len(db_last.frame.rows)

\* A replace of three rows in chunks of two over a table that already held rows.
C6_Witness ==
    /\ LargeReplace
    /\ chunk_size = 2
    /\ Len(db_last.frame.rows) = 3
    /\ db_last.before.rows # <<>>
    /\ db_last.modes = <<"replace", "append">>
    /\ Len(TableOf(db_last.op).rows) = 3

Rows(table) == {table.rows[i] : i \in 1..Len(table.rows)}

\* The detail row carries the context tags of the schedule row it was scraped for.
ExtractedFrom(detail, listing) ==
    /\ detail.DateURL = listing.DateURL
    /\ detail.Date = listing.GameDate
    /\ detail.Season = listing.Season
    /\ detail.League = listing.LeagueName
    /\ detail.ScheduleURL = listing.ScheduleURL

\* C7: every row save_boxscores wrote has the GameID that save_schedules
\* generated for the schedule row it was extracted from.
C7_DetailKeyIsListingKey ==
    \A detail \in Rows(boxscore_table), listing \in Rows(schedule_table) :
        ExtractedFrom(detail, listing) => detail.GameID = listing.GameID

OwnedBy(listing, unit) ==
    /\ listing.Season = unit.Season
    /\ listing.LeagueName = unit.League

\* C8: every row save_schedules wrote has the SeasonID that save_seasons
\* generated for the unit row with the same Season and League labels.
C8_ListingKeyIsUnitKey ==
    \A listing \in Rows(schedule_table), unit \in Rows(season_table) :
        OwnedBy(listing, unit) => listing.SeasonID = unit.SeasonID

\* Both tables hold the rows of the league whose name is longer than the
\* fifteen characters a GameID keeps of it.
C8_Witness ==
    \E listing \in Rows(schedule_table), unit \in Rows(season_table) :
        /\ OwnedBy(listing, unit)
        /\ unit.League = "Lega Basket Serie A"
        /\ listing.SeasonID = unit.SeasonID
        /\ Len(listing.SeasonID) = 27

(***************************************************************************)
(* Claims about scrape_league_schedules (checked under SpecSched)          *)
(***************************************************************************)
\* The failures of a unit's listing page: the fetch fails, the page has no
\* table, the table has no Date column.
ListingFailures == {PageFetchError, PageNoTable, PageNoDateColumn}

\* The rows of every unit gone through whose page was fetched and parsed.
ScrapedRows == Concat([i \in 1..Len(sched_log) |-> sched_log[i].out.rows])

\* C11: a unit whose listing page fails to be fetched or parsed (FetchError, no
\* table, no Date column) does not make scrape_league_schedules raise: the
\* unit is skipped, the later units are gone through, and the call returns the
\* rows of the units whose page was scraped.
C11_UnitFailureSkipped ==
    /\ (sched_log # <<>> /\ sched_log[Len(sched_log)].page \in ListingFailures)
            => sched_state # "raised"
    /\ sched_state = "returned"
            => (Len(sched_log) = Len(base_df) /\ sched_return.rows = ScrapedRows)

(***************************************************************************)
(* More claims about scrape_boxscore_tables (checked under SpecBox)        *)
(***************************************************************************)
FetchCallsOfRun == {k \in 1..Len(calls) : calls[k].op = "fetch_data"}
IsFailedFetch(c) == c.op = "fetch_data" /\ ~c.ok
FailedFetches == SelectSeq(calls, IsFailedFetch)
FailedRows == {FailedFetches[k].row : k \in 1..Len(FailedFetches)}

\* C12: a detail page whose fetch raises a ScraperError is caught and counted
\* in skipped_dates; its schedule row yields no detail rows and no
\* save_boxscores call; the run goes through every schedule row and returns;
\* when every fetch of the run failed, it returns an empty dataset and the
\* store was never written.
C12_FailedFetchSkipped ==
    box_state # "parked" =>
        /\ skipped_dates = [k \in 1..Len(FailedFetches) |-> FailedFetches[k].url]
        /\ \A i \in FailedRows : SaveCallsOf(i) = {} /\ ~Produced(i)
        /\ Len(results) = Cardinality({i \in 1..row_idx : Produced(i)})
        /\ box_state = "returned" =>
              /\ row_idx = Len(schedule_df)
              /\ box_return = Concat(results)
              /\ Len(FailedFetches) = Cardinality(FetchCallsOfRun)
                    => (box_return = <<>> /\ Saves = <<>>)

\* A run with a store whose first row's fetch failed and whose later row was
\* fetched and flushed.
C12_Witness ==
    /\ box_state = "returned"
    /\ store_given
    /\ 1 \in FailedRows
    /\ \E i \in 2..Len(schedule_df) : Produced(i) /\ SaveCallsOf(i) # {}
    /\ box_return # <<>>

\* A run with a store where every fetch failed.
C12_WitnessAllFailed ==
    /\ box_state = "returned"
    /\ store_given
    /\ Len(FailedFetches) >= 2
    /\ Len(FailedFetches) = Cardinality(FetchCallsOfRun)
    /\ box_return = <<>>

(***************************************************************************)
(* Claims about main and the DatabaseStore constructor (SpecMain)          *)
(***************************************************************************)
\* C13: once the store is initialised and the units page was fetched and
\* parsed, main raises nothing: the only exceptions that leave main are the
\* FetchError and ParseError of the units page itself.
C13_MainReturnsNormally ==
    (store.ready /\ main_pc = "raised") => main_exc \in ScraperErrors

AllFailed == \A k \in 1..Len(attempts) : attempts[k].outcome # "ok"

\* C14: the constructor tries the primary URL with the configured schema first
\* and the fallback SQLite URL (with schema None) only after the primary
\* failed; it returns the store of the first candidate that succeeds, and
\* raises only when every candidate was tried and failed.
C14_PrimaryThenFallback ==
    /\ attempts # <<>> =>
          /\ attempts[1].url = primary_url
          /\ attempts[1].schema = config_schema
    /\ Len(attempts) >= 2 =>
          /\ Len(attempts) = 2
          /\ attempts[1].outcome # "ok"
          /\ attempts[2].url = DEFAULT_SQLITE_URL
          /\ attempts[2].schema = None
    /\ init_state = "returned" =>
          /\ attempts[Len(attempts)].outcome = "ok"
          /\ store = IF attempts[1].outcome = "ok"
                     THEN Store(primary_url, config_schema)
                     ELSE Store(DEFAULT_SQLITE_URL, None)
    /\ init_state = "raised" =>
          /\ AllFailed
          /\ ~store.ready
          /\ ~StartsWithSqlite(primary_url) => Len(attempts) = 2
    /\ init_state = "running" => (AllFailed /\ ~store.ready)

\* The primary failed and the store is the fallback one, without the schema
\* that was configured.
C14_Witness ==
    /\ init_state = "returned"
    /\ config_schema = "basketball_hoops"
    /\ Len(attempts) = 2
    /\ store = Store(DEFAULT_SQLITE_URL, None)

IsFetch(c) == c.op = "fetch_data"
IsStoreSave(c) == c.op \in {"save_seasons", "save_schedules", "save_boxscores"}

Labels(rows) == [i \in 1..Len(rows) |-> <<rows[i].Season, rows[i].League>>]

\* A cell that is present and not blank.
IsLabel(cell) == cell \in {"2024-25", "EuroLeague"}

HasBothLabels(row) == IsLabel(row.Season) /\ IsLabel(row.League)

\* C16: parse_data returns exactly the rows of the table whose Season cell
\* and League cell are both present and non-blank, in their original
\* order, and discards every other row without raising.
C16_KeepsLabelledRows ==
    units_called =>
        /\ units_out.exc = None
        /\ Labels(units_out.rows) = Labels(SelectSeq(top_table, HasBothLabels))

\* C17: _build_schedule_url returns '<league URL directory>/<year>-schedule.html'
\* when the season URL ends in four digits followed by '.htm' or '.html' and
\* the league URL is present, the directory being the league URL without
\* trailing slashes and, if that ends in '.html', without its last path
\* segment; in every other case it returns no URL.
YearSuffixes == {DotHtm, DotHtml}

\* the ways to read url as <prefix><four characters><suffix>
YearCuts(url) == {n \in 0..Len(url) - 4 : SubSeq(url, n + 5, Len(url)) \in YearSuffixes}

HasYear(url) == \E n \in YearCuts(url) : AllDigits(SubSeq(url, n + 1, n + 4))

YearOf(url) == LET n == CHOOSE n \in YearCuts(url) : TRUE IN SubSeq(url, n + 1, n + 4)

\* text without its trailing slashes
NoTrailingSlash(text) ==
    CHOOSE t \in {SubSeq(text, 1, n) : n \in 0..Len(text)} :
        /\ (t = <<>> \/ t[Len(t)] # "/")
        /\ \A i \in Len(t) + 1..Len(text) : text[i] = "/"

\* the directory a league URL stands for
LeagueDirectory(league_url) ==
    LET page == NoTrailingSlash(league_url)
        parents == {SubSeq(page, 1, n) : n \in 0..Len(page)}
    IN  IF ~endswith(page, DotHtml) THEN page
        ELSE IF \A i \in 1..Len(page) : page[i] # "/" THEN page
        ELSE CHOOSE d \in parents :
                /\ Len(d) < Len(page) /\ page[Len(d) + 1] = "/"
                /\ \A i \in Len(d) + 2..Len(page) : page[i] # "/"

C17_ListingUrl ==
    url_called =>
        IF HasYear(url_season) /\ url_league # NoURL
        THEN url_out = LeagueDirectory(url_league) \o <<"/">> \o YearOf(url_season) \o ScheduleSuffix
        ELSE url_out = NoURL

C17_Witness ==
    /\ url_called
    /\ HasYear(url_season)
    /\ endswith(NoTrailingSlash(url_league), DotHtml)
    /\ url_out = UrlStem \o <<"/","2","0","2","5">> \o ScheduleSuffix

\* A table row whose Date cell parses to a date.
DateParses(row) == parse_game_date(row.Date) # None

\* The date, the participants and the detail-page URL a table row stands for.
RowFacts(row, link_table) ==
    [GameDate |-> parse_game_date(row.Date),
     TeamNameHome |-> row.Team,
     TeamNameVisitors |-> row.Opp,
     DateURL |-> IF link_table = "ok" /\ row.href # None THEN urljoin(row.href) ELSE None]

\* The same four fields of a returned row.
FactsOf(out) ==
    [GameDate |-> out.GameDate,
     TeamNameHome |-> out.TeamNameHome,
     TeamNameVisitors |-> out.TeamNameVisitors,
     DateURL |-> out.DateURL]

\* C18: scrape_league_schedule keeps exactly the table rows whose Date cell
\* parses to a date and drops the others without raising; the kept rows
\* keep their order, and each carries the date and the detail-page URL of
\* its own source row.
C18_KeepsDatedRows ==
    list_called =>
        LET dated == SelectSeq(list_page.rows, DateParses)
        IN  /\ list_out.exc = None
            /\ Len(list_out.rows) = Len(dated)
            /\ \A i \in 1..Len(dated) :
                    FactsOf(list_out.rows[i]) = RowFacts(dated[i], list_page.link_table)

\* The (player, role, team) triples of yielded rows.
Tagged(df) == {<<df[j].PlayerName, df[j].TeamRole, df[j].Team>> : j \in 1..Len(df)}

\* The triples a role table stands for when its rows carry the given team.
TableOfRole(table, role, team) == {<<table[j].Player, role, team>> : j \in 1..Len(table)}

\* The iteration just made was for a schedule row with a detail page and both
\* participant names, whose page exposes a table for each role.
BothRolesStep ==
    /\ row_idx' = row_idx + 1
    /\ LET row == schedule_df[row_idx']
       IN  /\ row.DateURL # None
           /\ row.TeamNameVisitors # None /\ row.TeamNameHome # None
           /\ html_cache'[row.DateURL].cached
           /\ html_cache'[row.DateURL].table_map.Visitors # <<>>
           /\ html_cache'[row.DateURL].table_map.Home # <<>>

\* C19: for a schedule row with both participant names and a detail page
\* exposing a table for each role, scrape_boxscore_tables yields the rows of
\* both role tables; the rows tagged Visitors carry the row's visiting team
\* and the rows tagged Home its home team, and no row carries the other
\* role's team.
C19_RolesCarryOwnTeam ==
    [][BothRolesStep =>
        LET row == schedule_df[row_idx']
            table_map == html_cache'[row.DateURL].table_map
        IN  /\ Len(results') = Len(results) + 1
            /\ LET row_df == results'[Len(results')]
               IN  /\ Len(row_df) = Len(table_map.Visitors[1]) + Len(table_map.Home[1])
                   /\ Tagged(row_df) =
                        TableOfRole(table_map.Visitors[1], "Visitors", row.TeamNameVisitors)
                            \cup TableOfRole(table_map.Home[1], "Home", row.TeamNameHome)]_vars

C19_Witness ==
    \E k \in 1..Len(results) :
        /\ <<"Player V", "Visitors", "Team B">> \in Tagged(results[k])
        /\ <<"Player H", "Home", "Team A">> \in Tagged(results[k])

\* A save operation has just been called with an empty or missing dataset.
EmptySaveStep ==
    /\ db_saves' = db_saves + 1
    /\ db_last'.frame.rows = <<>>

\* C20: save_seasons, save_schedules, save_boxscores and _write_dataframe,
\* called with an empty or missing dataset, return 0 and make no write: no
\* to_sql call in either mode, and every table is left as it was (none is
\* created, replaced or appended to).
C20_EmptySaveWritesNothing ==
    [][EmptySaveStep =>
        /\ db_last'.written = 0
        /\ db_last'.modes = <<>>
        /\ UNCHANGED <<season_table, schedule_table, boxscore_table>>]_vars

C20_Witness ==
    /\ db_last.op = "save_seasons"
    /\ db_last.if_exists = "replace"
    /\ db_last.frame.rows = <<>>
    /\ db_last.written = 0
    /\ season_table.rows # <<>>
    /\ season_table = db_last.before

(***************************************************************************)
(* Claims about the storage backends                                       *)
(***************************************************************************)
\* C21: for every backend, every entity kind and both modes, a save call on
\* a non-empty dataset returns the number of rows of the dataset passed in,
\* whatever the target held before.  (Here: LocalStore and CloudStore.)
C21_ReturnsRowsPassedIn ==
    (file_last.kind # "none" /\ file_last.given.rows # <<>>) =>
        file_last.returned = Len(file_last.given.rows)

\* The same for DatabaseStore (checked under SpecDb).
DbReturnsRowsPassedIn ==
    (db_last.op # "none" /\ db_last.frame.rows # <<>>) =>
        db_last.written = Len(db_last.frame.rows)

(***************************************************************************)
(* Claims about _parse_boxscore_tables (checked under SpecTables)          *)
(***************************************************************************)
RECURSIVE FirstUnmatched(_, _, _)
\* The page's tables that no role holds yet, assigned in page order to the
\* roles still missing, from table i on.
FirstUnmatched(page, found, i) ==
    IF i > Len(page) THEN found
    ELSE IF i \in {found.Visitors, found.Home} THEN FirstUnmatched(page, found, i + 1)
    ELSE IF found.Visitors = NoElement THEN FirstUnmatched(page, [found EXCEPT !.Visitors = i], i + 1)
    ELSE IF found.Home = NoElement THEN FirstUnmatched(page, [found EXCEPT !.Home = i], i + 1)
    ELSE found

\* C22: the role tables are located in priority order (role-named
\* container, then the combined container in Visitors-Home order, then the
\* positional fallback), the fallback gives the still-missing roles only
\* tables no earlier tier has assigned, in page order, and no table element
\* is assigned to both roles.
C22_FallbackTakesUnmatchedTables ==
    tables_called =>
        /\ table_elements = FirstUnmatched(page_tables, Combined(page_tables, RoleNamed(page_tables)), 1)
        /\ (table_elements.Visitors # NoElement => table_elements.Visitors # table_elements.Home)

\* C26: for every input column order, the dataset written by save_seasons,
\* save_schedules and save_boxscores has the primary-key column first, then
\* the foreign-key column if the entity has one, then all other columns in
\* the order the entity's schema declares them, also when an identifier
\* column was already present in the input.
C26_SchemaColumnOrder ==
    order_called => order_out = IdColumns(order_kind) \o DataColumns(order_kind)

\* What does hold: the identifier columns lead and the other columns keep
\* the order of the input, except that save_seasons leaves a dataset that
\* already has SeasonID as it is.
InputColumnOrder ==
    order_called =>
        IF order_kind = "seasons" /\ "SeasonID" \in Columns(order_df)
        THEN order_out = order_df.cols
        ELSE order_out = IdColumns(order_kind) \o
                SelectSeq(order_df.cols,
                    LAMBDA c : \A i \in 1..Len(IdColumns(order_kind)) : IdColumns(order_kind)[i] # c)

(***************************************************************************)
(* Claims about a failing chunk write (checked under SpecChunks)           *)
(***************************************************************************)
\* The write of chunk k >= 2 of the call failed.
LaterChunkFailed ==
    /\ ch_called
    /\ ch_call.fail_at >= 2
    /\ ch_call.fail_at <= ChunkCount(ch_call.df, ch_call.size)

\* The rows of the chunks before the failing one.
RowsBeforeFailure ==
    LET n == (ch_call.fail_at - 1) * ch_call.size
    IN  SubSeq(ch_call.df.rows, 1, n)

\* C27: the chunk writes of one _write_dataframe call are not atomic as a
\* group: when the write of chunk k >= 2 fails, the error leaves the call,
\* no later chunk is written, chunks 1..k-1 stay in the table, and in
\* replace mode the rows the table held before the call are gone.
C27_PartialWriteStays ==
    LaterChunkFailed =>
        /\ ch_out.exc # None
        /\ Len(ch_out.modes) = ch_call.fail_at
        /\ ch_table.rows =
              (IF ch_call.if_exists = "replace" THEN <<>> ELSE ch_before.rows) \o RowsBeforeFailure

\* Replace over a filled table, three chunks, the second one failing.
C27_Witness ==
    /\ LaterChunkFailed
    /\ ch_call.if_exists = "replace"
    /\ ch_call.size = 1
    /\ ch_call.fail_at = 2
    /\ ch_before.rows # <<>>
    /\ Len(ch_table.rows) = 1
    /\ ch_table.rows[1] # ch_before.rows[1]

\* Without a failure the loop is the one of write_dataframe.
NoFailureIsWriteDataframe ==
    (ch_called /\ ch_out.exc = None) =>
        LET out == write_dataframe(ch_before, ch_call.df, ch_call.if_exists, ch_call.size)
        IN  ch_table = out.table /\ ch_out.modes = out.modes /\ ch_out.written = out.written

(***************************************************************************)
(* Claims about what a daily run of main writes.                           *)
(***************************************************************************)

IsListingAppend(c) == c.op = "save_schedules" /\ c.arg = "append"
IsDetailFlush(c) == c.op = "save_boxscores"

\* A daily run with a store that is over, by return or by an error.
DailyRunOver == main_mode = "daily" /\ store.ready /\ main_pc \in {"done", "raised"}

\* C30: a daily run of main with a store writes the listing rows it scraped
\* to the Listing table with append, and leaves the Unit table unwritten.
C30_DailyListingAppended ==
    (DailyRunOver /\ schedules_df # <<>>) =>
        /\ SelectSeq(main_calls, IsListingAppend) # <<>>
        /\ season_table = NoFrame

\* What the code gives instead: a run with a store that scraped listing rows
\* ends at line 84 with KeyError, having written no table.
ListingRowsEndInKeyError ==
    (store.ready /\ main_pc \in {"done", "raised"} /\ schedules_df # <<>>) =>
        /\ main_pc = "raised" /\ main_exc = "KeyError"
        /\ SelectSeq(main_calls, IsStoreSave) = <<>>
        /\ season_table = NoFrame /\ schedule_table = NoFrame /\ boxscore_table = NoFrame

\* So no run of main reaches a Detail flush, and a daily run that comes to
\* its end has written nothing.
MainNeverFlushes ==
    /\ SelectSeq(main_calls, IsDetailFlush) = <<>>
    /\ boxscore_table = NoFrame
    /\ (DailyRunOver /\ main_pc = "done") =>
          (SelectSeq(main_calls, IsStoreSave) = <<>> /\ schedules_df = <<>>)

====
